---------------------------- MODULE Spec2Model ----------------------------
(***************************************************************************)
(* A model of the Emitter of sandrolain/synapse (src/src/index.ts, the     *)
(* class Emitter at lines 699-1010, and the Subscription at 681-693).      *)
(*                                                                         *)
(* One synchronous stretch of JavaScript is one action: a call of the API  *)
(* (subscribe, emit, ...) runs until it returns, nested emissions and the  *)
(* callbacks they invoke included.  An `await` ends the stretch: what      *)
(* follows it is a job, held in `awaiting` while the awaited promise is    *)
(* pending and in the FIFO queue `microtasks` once it has settled.         *)
(***************************************************************************)
EXTENDS Integers, Sequences, FiniteSets, TLC

(***************************************************************************)
(* Bounds of the model.                                                    *)
(***************************************************************************)
MaxReplay == 2      \* replayMax is drawn from 0..MaxReplay
MaxEmits  == 3      \* values the environment hands to emit/emitAll in one run
CacheSize == 2      \* cache(cacheSize): cacheSize is drawn from 0..CacheSize
CountMax  == 2      \* countReleaser(max): max is drawn from 1..CountMax
LengthMax == 2      \* lengthReleaser(max): max is drawn from 1..LengthMax
MaxLen    == 3      \* an Array the environment emits has 0..MaxLen elements

(***************************************************************************)
(* Data.  A value is tagged with what JavaScript can tell at run time: a   *)
(* plain value ("s") or a Promise ("p") of one.  The emitter never looks   *)
(* into a plain value, so the n-th value the environment hands over is     *)
(* named n: a delivery then tells which emission it belongs to.            *)
(***************************************************************************)
Scalar(n)  == [k |-> "s", v |-> n]
Promise(d) == [k |-> "p", v |-> d]
Arr(q)     == [k |-> "a", v |-> q]     \* an Array of values
isPromise(d) == d.k = "p"
isArray(d)   == d.k = "a"
Values == {Scalar(n) : n \in 1..MaxEmits}

(***************************************************************************)
(* The objects of a run.  Emitters are instances of the class; a callback  *)
(* is a function subscriber.  `f` and `g` only record what they are called *)
(* with; `u` records and then calls A.unsubscribe(g), a subscriber that    *)
(* cancels another one from inside a notification pass; `t` records and    *)
(* then throws; `s` records and then calls A.subscribe(g), `r` records and *)
(* then calls A.subscribeAndReplay(g): subscribers that add another one    *)
(* from inside a notification pass.                                        *)
(***************************************************************************)
Sources     == {"A", "B", "R", "M"}   \* M is the emitter that merge() makes
Callbacks   == {"f", "g", "u", "t", "s", "r"}
Empty       == "-"   \* a deleted entry of a Set that is being iterated

(***************************************************************************)
(* The operators (index.ts 847-972).  An operator call creates a child     *)
(* emitter and subscribes an anonymous function to its parent.  The child  *)
(* is named after the operator, Fn[o] is the function subscribed to the    *)
(* parent and RelFn[o] the function that emitterReleaser(R) subscribes to  *)
(* R for the releaser it hands to pass, wait or buffer.  delay,            *)
(* debounceTime and auditTime are the methods of the class as releasers.ts *)
(* has it (lines 269-277, 305-323 and 348-366): the operators that set     *)
(* timers themselves.                                                      *)
(***************************************************************************)
Ops   == {"filter", "map", "reduce", "pass", "wait", "buffer", "cache", "unpack",
          "delay", "debounceTime", "auditTime"}
Gates == {"pass", "wait", "buffer"}
Timed == {"delay", "debounceTime", "auditTime"}
Fn    == [filter |-> "filter.fn", map |-> "map.fn", reduce |-> "reduce.fn",
          pass |-> "pass.fn", wait |-> "wait.fn", buffer |-> "buffer.fn",
          cache |-> "cache.fn", unpack |-> "unpack.fn", delay |-> "delay.fn",
          debounceTime |-> "debounceTime.fn", auditTime |-> "auditTime.fn"]
RelFn == [pass |-> "pass.rel", wait |-> "wait.rel", buffer |-> "buffer.rel"]
OpFns  == {Fn[o] : o \in Ops}
RelFns == {RelFn[o] : o \in Gates}
OpOf(fn)  == CHOOSE o \in Ops : Fn[o] = fn
RelOf(fn) == CHOOSE o \in Gates : RelFn[o] = fn

\* the functions `fn` that the calls of promise() subscribe (index.ts 802),
\* one per call, in call order
PromiseFns  == <<"promise.fn1", "promise.fn2">>
PromiseFnSet == {PromiseFns[i] : i \in DOMAIN PromiseFns}
PromiseOf(fn) == CHOOSE i \in DOMAIN PromiseFns : PromiseFns[i] = fn

Emitters    == Sources \cup Ops
Subscribers == Callbacks \cup Emitters \cup OpFns \cup RelFns \cup PromiseFnSet

\* the functions the environment hands to filter, map and reduce
filterFn(d) == d.v % 2 = 1
mapFn(d) == Scalar(d.v + 100)
reduceFn(acc, d) == Scalar(acc.v * 10 + d.v)
accumulatorData == Scalar(0)

\* the closure of an operator that has not been called
\* (`releases` is history: how often its releaseExec was invoked)
NoOp == [created |-> FALSE, rel |-> "none", n |-> 0, acc |-> accumulatorData,
         buf |-> <<>>, ok |-> FALSE, held |-> <<>>, count |-> 0,
         armed |-> FALSE, releases |-> 0]

\* the closure of merge before merge is called; `life` is history: whether
\* start() or stop() was called last on the merged emitter
NoMerge == [created |-> FALSE, args |-> <<>>, subscriptions |-> <<>>,
            life |-> "new"]

VARIABLES
    subscriptions,  \* [Emitters -> Seq(Subscribers)]: the Set, in insertion order
    replayMax,      \* [Emitters -> Nat]: options.replayMax
    replayCache,    \* [Emitters -> Seq(Values)]
    handles,        \* the Subscription objects created: <<emitter, subscriber>>
    delivered,      \* what the callbacks were called with, in call order
    awaiting,       \* emit calls suspended on a promise that is still pending
    microtasks,     \* FIFO queue of continuations that are ready to run
    timers,         \* the setTimeout callbacks that are pending, in arming order
    calls,          \* history: the emit/emitAll calls made and the timers fired;
                    \* op "emitPromise" becomes "emitRejected" when the promise is rejected
    results,        \* history: per call, the state of the promise it returned
    dispatched,     \* history: per emitter, the values whose pass has begun
    configured,     \* history: per emitter, Len(dispatched) at the last setOptions
    ops,            \* [Ops -> closure]: the variables the operator's functions close over
    lastOp,         \* history: the last membership-changing call per pair
    lastCall,       \* history: the step taken last, and how it returned
    merged,         \* the closure of merge(...args): args and its Subscription list
    promises        \* the promises made by promise(), in call order

vars == <<subscriptions, replayMax, replayCache, handles, delivered,
          awaiting, microtasks, timers, calls, results, dispatched,
          configured, ops, lastOp, lastCall, merged, promises>>

(***************************************************************************)
(* The heap a synchronous stretch works on, as one record.                 *)
(***************************************************************************)
Heap ==
    [subscriptions |-> subscriptions, replayMax |-> replayMax,
     replayCache |-> replayCache, handles |-> handles,
     delivered |-> delivered, dispatched |-> dispatched,
     configured |-> configured, ops |-> ops, lastOp |-> lastOp,
     timers |-> timers, merged |-> merged, promises |-> promises,
     threw |-> FALSE]

(***************************************************************************)
(* Set<Subscriber>: insertion-ordered; has/add/delete by identity.  While  *)
(* a for-of loop is running over it, a deleted entry leaves a hole and an  *)
(* added entry goes to the end, where the running loop will find it.       *)
(***************************************************************************)
SetHas(q, x) == \E i \in DOMAIN q : q[i] = x
\* mutant: an Array, not a Set: add appends whatever is there
SetAdd_always(q, x) == Append(q, x)

\* mutant: adding an entry that is there moves it to the end
SetAdd_moves(q, x) == Append(SelectSeq(q, LAMBDA y : y # x), x)

SetAdd(q, x) == IF SetHas(q, x) THEN q ELSE Append(q, x)
SetDelete(q, x) == [i \in DOMAIN q |-> IF q[i] = x THEN Empty ELSE q[i]]
Compact(q) == SelectSeq(q, LAMBDA y : y # Empty)

(***************************************************************************)
(* Array.prototype.slice(-n) for n >= 0: the last n elements; slice(-0)    *)
(* is slice(0), the whole array.                                           *)
(***************************************************************************)
\* mutant: slice(0, n), the first n elements
SliceFirst(q, n) ==
    IF n >= Len(q) THEN q ELSE SubSeq(q, 1, n)

SliceLast(q, n) ==
    IF n = 0 \/ n >= Len(q) THEN q
    ELSE SubSeq(q, Len(q) - n + 1, Len(q))


(***************************************************************************)
(* Subscription management (index.ts 746-795).  A throw is the flag        *)
(* `threw` of the heap: the statements after it do not run.                *)
(* lastOp is history kept beside the Set: the last call that was to change *)
(* the membership of x in e's Set.                                         *)
(***************************************************************************)
subscribed(h, e, x) == SetHas(h.subscriptions[e], x)

\* lastOp maps the pairs <<e, x>> a call was made for to that call
Put(f, p, v) == [q \in DOMAIN f \cup {p} |-> IF q = p THEN v ELSE f[q]]
LastOp(e, x) == IF <<e, x>> \in DOMAIN lastOp THEN lastOp[<<e, x>>] ELSE "none"

\* mutant: the guard of line 747 is missing
subscribe_unguarded(h, e, x) ==
    [h EXCEPT !.subscriptions[e] = SetAdd(@, x),
              !.handles = @ \cup {<<e, x>>},
              !.lastOp = Put(@, <<e, x>>, "subscribe")]

subscribe(h, e, x) ==
    IF x = e
    THEN [h EXCEPT !.threw = TRUE]
    ELSE [h EXCEPT !.subscriptions[e] = SetAdd(@, x),
                   !.handles = @ \cup {<<e, x>>},
                   !.lastOp = Put(@, <<e, x>>, "subscribe")]

\* mutant: the subscriber is not deleted from the Set
unsubscribe_keeps(h, e, x) ==
    [h EXCEPT !.lastOp = Put(@, <<e, x>>, "unsubscribe")]

unsubscribe(h, e, x) ==
    [h EXCEPT !.subscriptions[e] = SetDelete(@, x),
              !.lastOp = Put(@, <<e, x>>, "unsubscribe")]

\* x.subscribeTo(e)
subscribeTo(h, x, e) ==
    IF e = x
    THEN [h EXCEPT !.threw = TRUE]
    ELSE subscribe(h, e, x)

\* mutant: cancelling a subscription that is not there is an error
Subscription_unsubscribe_strict(h, e, x) ==
    IF subscribed(h, e, x) THEN unsubscribe(h, e, x) ELSE [h EXCEPT !.threw = TRUE]

\* Subscription.unsubscribe() of the handle (e, x)
Subscription_unsubscribe(h, e, x) == unsubscribe(h, e, x)

(***************************************************************************)
(* Options and the replay cache (index.ts 719-731).                        *)
(***************************************************************************)
updateReplayCache(h, e) ==
    IF h.replayMax[e] > 0
    THEN [h EXCEPT !.replayCache[e] = SliceLast(@, h.replayMax[e])]
    ELSE h

setOptions(h, e, n) ==
    updateReplayCache([h EXCEPT !.replayMax[e] = n,
                                !.configured[e] = Len(h.dispatched[e])], e)

(***************************************************************************)
(* merge(...args) (initiators.ts 20-41) makes the emitter M and sets its   *)
(* startCallback and stopCallback; start() and stop() (index.ts 977-992)   *)
(* call them.  The closure holds args and the list `subscriptions` of the  *)
(* Subscription objects the startCallback was returned.                    *)
(***************************************************************************)
merge(h, args) ==
    [h EXCEPT !.merged = [NoMerge EXCEPT !.created = TRUE, !.args = args]]

\* mutant: the test of line 27 is missing, every source is subscribed
RECURSIVE startCallback_unguarded(_, _)
startCallback_unguarded(h, args) ==
    IF args = <<>> THEN h
    ELSE LET source == Head(args)
             h1 == [subscribe(h, source, "M") EXCEPT
                       !.merged.subscriptions = Append(@, <<source, "M">>)]
         IN  startCallback_unguarded(h1, Tail(args))

\* startCallback (lines 25-31), the for-of loop from `args` on
RECURSIVE startCallback(_, _)
startCallback(h, args) ==
    IF args = <<>> THEN h
    ELSE LET source == Head(args)
             h1 == IF ~subscribed(h, source, "M")
                   THEN [subscribe(h, source, "M") EXCEPT
                            !.merged.subscriptions = Append(@, <<source, "M">>)]
                   ELSE h
         IN  startCallback(h1, Tail(args))

\* mutant: `if` for `while`, one Subscription is cancelled per stop()
stopCallback_once(h) ==
    IF h.merged.subscriptions = <<>> THEN h
    ELSE LET subs == Head(h.merged.subscriptions)
             h1 == [h EXCEPT !.merged.subscriptions = Tail(@)]
         IN  Subscription_unsubscribe(h1, subs[1], subs[2])

\* stopCallback (lines 32-37)
RECURSIVE stopCallback(_)
stopCallback(h) ==
    IF h.merged.subscriptions = <<>> THEN h
    ELSE LET subs == Head(h.merged.subscriptions)
             h1 == [h EXCEPT !.merged.subscriptions = Tail(@)]
         IN  stopCallback(Subscription_unsubscribe(h1, subs[1], subs[2]))

\* the callbacks are null on an emitter that merge did not make
start(h, e) ==
    IF e = "M" /\ h.merged.created
    THEN [startCallback(h, h.merged.args) EXCEPT !.merged.life = "started"]
    ELSE h

stop(h, e) ==
    IF e = "M" /\ h.merged.created
    THEN [stopCallback(h) EXCEPT !.merged.life = "stopped"]
    ELSE h

(***************************************************************************)
(* Emission (index.ts 814-831).  emit is an async function: called with a  *)
(* value that is no Promise it runs to its end inside the call.  `emit`    *)
(* below is its body from line 818 on, with data already resolved; `t`     *)
(* names the call and the element the emission comes from (history only).  *)
(* The for-of loop of line 820 walks the live Set by position.             *)
(***************************************************************************)
RECURSIVE emit(_, _, _)
RECURSIVE emitLoop(_, _, _, _)
RECURSIVE propagateEmit(_, _, _, _)
RECURSIVE invoke(_, _, _, _)
RECURSIVE emitChild(_, _, _)
RECURSIVE unpackLoop(_, _, _)
RECURSIVE releaseExec(_, _, _)
RECURSIVE releaser(_, _, _)
RECURSIVE countReleaser_noReset(_, _, _)
RECURSIVE countReleaser(_, _, _)
RECURSIVE lengthReleaser_atLeast(_, _, _)
RECURSIVE lengthReleaser(_, _, _)
RECURSIVE operatorFn(_, _, _)
RECURSIVE releaserFn(_, _)
RECURSIVE timerFn(_, _, _)
RECURSIVE replayLoop(_, _, _, _, _)
RECURSIVE subscribeAndReplay(_, _, _)

\* emitter.emit(data) inside an operator: the child's emit is an async
\* function, what is thrown inside it rejects its promise
emitChild(h, o, d) == [emit(h, o, d) EXCEPT !.threw = FALSE]

\* mutant: an element that is an Array is unpacked too
RECURSIVE unpackLoop_deep(_, _, _)
unpackLoop_deep(h, o, items) ==
    IF items = <<>> THEN h
    ELSE LET h1 == IF isArray(Head(items))
                   THEN unpackLoop_deep(h, o, Head(items).v)
                   ELSE emitChild(h, o, Head(items))
         IN  unpackLoop_deep(h1, o, Tail(items))

\* the for-of loop of unpack (lines 964-966)
unpackLoop(h, o, items) ==
    IF items = <<>> THEN h
    ELSE unpackLoop(emitChild(h, o, Head(items)), o, Tail(items))

\* mutant: buffer emits the copy its releaser was consulted with, not the
\* buffer as it is when the trigger is invoked
releaseExec_emitsSnapshot(h, o, d) ==
    LET h1 == [h EXCEPT !.ops[o].releases = @ + 1]
    IN  CASE o = "pass"   -> [h1 EXCEPT !.ops[o].ok = TRUE]
          [] o = "wait"   -> emitChild(h1, o, d)
          [] o = "buffer" -> emitChild([h1 EXCEPT !.ops[o].buf = <<>>], o, d)

\* mutant: buffer does not start a new array when it releases (line 932 missing)
releaseExec_keepsBuffer(h, o, d) ==
    LET h1 == [h EXCEPT !.ops[o].releases = @ + 1]
    IN  CASE o = "pass"   -> [h1 EXCEPT !.ops[o].ok = TRUE]
          [] o = "wait"   -> emitChild(h1, o, d)
          [] o = "buffer" -> emitChild(h1, o, Arr(h1.ops[o].buf))

\* releaseExec of pass (895-897), wait (914-916) and buffer (930-934)
releaseExec(h, o, d) ==
    LET h1 == [h EXCEPT !.ops[o].releases = @ + 1]
    IN  CASE o = "pass"   -> [h1 EXCEPT !.ops[o].ok = TRUE]
          [] o = "wait"   -> emitChild(h1, o, d)
          [] o = "buffer" -> emitChild([h1 EXCEPT !.ops[o].buf = <<>>], o,
                                       Arr(h1.ops[o].buf))

\* The ReleaseFunctions of operators.spec.ts, called by operator o with data
\* d and o's releaseExec.  A timer is the closure () => releaser(data) of o.
\* mutant: the first consultation is kept, later ones do not replace it
emitterReleaser_keepsFirst(h, o, d) ==
    IF h.ops[o].held = <<>> THEN [h EXCEPT !.ops[o].held = <<d>>] ELSE h

\* emitterReleaser (294-298)
emitterReleaser(h, o, d) == [h EXCEPT !.ops[o].held = <<d>>]

\* mutant: the timer of the value before is cleared
delayReleaser_clearsPending(h, o, d) ==
    [h EXCEPT !.timers = Append(SelectSeq(@, LAMBDA tm : tm.o # o),
                                [o |-> o, d |-> d])]

\* delayReleaser (304-306)
delayReleaser(h, o, d) == [h EXCEPT !.timers = Append(@, [o |-> o, d |-> d])]

\* mutant: the pending timer is not cleared (lines 314-316 missing)
debounceReleaser_noClear(h, o, d) ==
    [h EXCEPT !.timers = Append(@, [o |-> o, d |-> d])]

\* debounceReleaser (313-318): clearTimeout drops the pending timer of o
debounceReleaser(h, o, d) ==
    [h EXCEPT !.timers = Append(SelectSeq(@, LAMBDA tm : tm.o # o),
                                [o |-> o, d |-> d])]

\* mutant: the timer is cleared and armed again on every value
timeoutReleaser_rearms(h, o, d) ==
    [h EXCEPT !.ops[o].armed = TRUE,
              !.timers = Append(SelectSeq(@, LAMBDA tm : tm.o # o),
                                [o |-> o, d |-> d])]

\* timeoutReleaser (325-332): `armed` is emitterTO !== null
timeoutReleaser(h, o, d) ==
    IF h.ops[o].armed THEN h
    ELSE [h EXCEPT !.ops[o].armed = TRUE,
                   !.timers = Append(@, [o |-> o, d |-> d])]

\* mutant: the counter is not reset when it releases (line 342 missing)
countReleaser_noReset(h, o, d) ==
    IF h.ops[o].count + 1 >= h.ops[o].n
    THEN releaseExec([h EXCEPT !.ops[o].count = @ + 1], o, d)
    ELSE [h EXCEPT !.ops[o].count = @ + 1]

\* countReleaser (340-345), start = 0
countReleaser(h, o, d) ==
    IF h.ops[o].count + 1 >= h.ops[o].n
    THEN releaseExec([h EXCEPT !.ops[o].count = 0], o, d)
    ELSE [h EXCEPT !.ops[o].count = @ + 1]

\* mutant: the length is compared with >=
lengthReleaser_atLeast(h, o, d) ==
    IF isArray(d) /\ Len(d.v) >= h.ops[o].n THEN releaseExec(h, o, d) ELSE h

\* lengthReleaser (352-356): data.length is undefined when data is no Array
lengthReleaser(h, o, d) ==
    IF isArray(d) /\ Len(d.v) = h.ops[o].n THEN releaseExec(h, o, d) ELSE h

\* releaser(data, releaseExec) inside operator o (index.ts 903, 918, 937)
releaser(h, o, d) ==
    CASE h.ops[o].rel = "emitter"  -> emitterReleaser(h, o, d)
      [] h.ops[o].rel = "count"    -> countReleaser(h, o, d)
      [] h.ops[o].rel = "length"   -> lengthReleaser(h, o, d)
      [] h.ops[o].rel = "delay"    -> delayReleaser(h, o, d)
      [] h.ops[o].rel = "debounce" -> debounceReleaser(h, o, d)
      [] h.ops[o].rel = "timeout"  -> timeoutReleaser(h, o, d)

\* the callback of a timer of operator o that fires (lines 305, 317, 327-330;
\* for delay, () => emitter.emit(data) of releasers.ts 273; for debounceTime,
\* () => (ok = true) of 317 and 320; for auditTime the function of 358-362,
\* which looks at lastData, undefined until the first source value)
timerFn(h, o, d) ==
    CASE o = "delay" -> emitChild(h, o, d)
      [] o = "debounceTime" -> [h EXCEPT !.ops[o].ok = TRUE]
      [] o = "auditTime" ->
            IF h.ops[o].held # <<>> THEN emitChild(h, o, h.ops[o].held[1]) ELSE h
      [] OTHER -> releaseExec([h EXCEPT !.ops[o].armed = FALSE], o, d)

\* cacheData.push(data) of cache (line 950) is a push to the Array that was
\* emitted for the value before: the child's replay cache holds that Array
cachePush(h, o, d) ==
    LET last == Len(h.replayCache[o])
    IN  IF last = 0 THEN h
        ELSE [h EXCEPT !.replayCache[o][last] = Arr(Append(@.v, d))]

\* The functions the operators subscribe to their parent, called with data;
\* o names the operator and its child emitter.
\* mutant: the result of filterFn is not looked at (line 850 missing)
filter_unfiltered(h, o, d) == emitChild(h, o, d)

\* filter (849-853)
filter(h, o, d) == IF filterFn(d) THEN emitChild(h, o, d) ELSE h

\* mutant: the source value is emitted, not the result of mapFn
map_untransformed(h, o, d) == emitChild(h, o, d)

\* map (863-866)
map(h, o, d) == emitChild(h, o, mapFn(d))

\* mutant: the new accumulator is not kept (line 882 missing)
reduce_seedEveryTime(h, o, d) ==
    emitChild(h, o, reduceFn(h.ops[o].acc, d))

\* reduce (880-884)
reduce(h, o, d) ==
    LET newData == reduceFn(h.ops[o].acc, d)
    IN  emitChild([h EXCEPT !.ops[o].acc = newData], o, newData)

\* mutant: pass does not close its gate when it forwards (line 901 missing)
pass_gateStaysOpen(h, o, d) ==
    releaser(IF h.ops[o].ok THEN emitChild(h, o, d) ELSE h, o, d)

\* mutant: the gate is not looked at, every value is forwarded (line 899)
pass_gateIgnored(h, o, d) ==
    releaser([emitChild(h, o, d) EXCEPT !.ops[o].ok = FALSE], o, d)

\* pass (898-904)
pass(h, o, d) ==
    LET h1 == IF h.ops[o].ok
              THEN [emitChild(h, o, d) EXCEPT !.ops[o].ok = FALSE]
              ELSE h
    IN  releaser(h1, o, d)

\* wait (917-919)
wait(h, o, d) == releaser(h, o, d)

\* buffer (935-938): the releaser is called with a copy of the buffer
buffer(h, o, d) ==
    LET h1 == [h EXCEPT !.ops[o].buf = Append(@, d)]
    IN  releaser(h1, o, Arr(h1.ops[o].buf))

\* cache (949-953)
cache(h, o, d) ==
    LET cacheData == SliceLast(Append(h.ops[o].buf, d), h.ops[o].n)
    IN  emitChild([cachePush(h, o, d) EXCEPT !.ops[o].buf = cacheData],
                  o, Arr(cacheData))

\* unpack (962-970)
unpack(h, o, d) ==
    IF isArray(d) THEN unpackLoop(h, o, d.v) ELSE emitChild(h, o, d)

\* delay (releasers.ts 272-274): window.setTimeout(() => emitter.emit(data), delay)
delay(h, o, d) == [h EXCEPT !.timers = Append(@, [o |-> o, d |-> d])]

\* debounceTime (releasers.ts 310-318): clearTimeout drops the pending timer
debounceTime(h, o, d) ==
    LET h1 == IF h.ops[o].ok
              THEN [emitChild(h, o, d) EXCEPT !.ops[o].ok = FALSE]
              ELSE h
    IN  [h1 EXCEPT !.timers = Append(SelectSeq(@, LAMBDA tm : tm.o # o),
                                     [o |-> o, d |-> d])]

\* mutant: the pending timer is not cleared (releasers.ts line 356 missing)
auditTime_noClear(h, o, d) ==
    [h EXCEPT !.ops[o].held = <<d>>,
              !.timers = Append(@, [o |-> o, d |-> d])]

\* auditTime (releasers.ts 353-363): `held` is lastData
auditTime(h, o, d) ==
    [h EXCEPT !.ops[o].held = <<d>>,
              !.timers = Append(SelectSeq(@, LAMBDA tm : tm.o # o),
                                [o |-> o, d |-> d])]

\* the function operator o has subscribed to its parent, called with data
operatorFn(h, o, d) ==
    CASE o = "filter" -> filter(h, o, d)
      [] o = "map"    -> map(h, o, d)
      [] o = "reduce" -> reduce(h, o, d)
      [] o = "pass"   -> pass(h, o, d)
      [] o = "wait"   -> wait(h, o, d)
      [] o = "buffer" -> buffer(h, o, d)
      [] o = "cache"  -> cache(h, o, d)
      [] o = "unpack" -> unpack(h, o, d)
      [] o = "delay"  -> delay(h, o, d)
      [] o = "debounceTime" -> debounceTime(h, o, d)
      [] o = "auditTime"    -> auditTime(h, o, d)

\* mutant: releaserFunction is called whether it is set or not
releaserFn_unguarded(h, o) ==
    releaseExec(h, o, IF h.ops[o].held # <<>> THEN h.ops[o].held[1] ELSE Scalar(0))

\* the function emitterReleaser subscribes to R (operators.spec.ts 289-293)
releaserFn(h, o) ==
    IF h.ops[o].held # <<>> THEN releaseExec(h, o, h.ops[o].held[1]) ELSE h

\* mutant: fn does not unsubscribe itself (line 803 missing)
promiseFn_staysSubscribed(h, fn, d) ==
    LET i == PromiseOf(fn)
    IN  IF h.promises[i].state = "pending"
        THEN [h EXCEPT !.promises[i].state = "resolved",
                       !.promises[i].value = <<d>>]
        ELSE h

\* fn of promise() (index.ts 802-805), called with data: it unsubscribes
\* itself from the emitter promise() was called on and resolves the promise;
\* resolve on a promise that is resolved already does nothing
promiseFn(h, fn, d) ==
    LET i == PromiseOf(fn)
        h1 == unsubscribe(h, h.promises[i].e, fn)
    IN  IF h1.promises[i].state = "pending"
        THEN [h1 EXCEPT !.promises[i].state = "resolved",
                        !.promises[i].value = <<d>>]
        ELSE h1

\* sub.call(this, data) for a function subscriber (line 829).  What a
\* callback of the environment was called with is recorded in `delivered`.
invoke(h, e, sub, d) ==
    CASE sub \in OpFns  -> operatorFn(h, OpOf(sub), d)
      [] sub \in RelFns -> releaserFn(h, RelOf(sub))
      [] sub \in PromiseFnSet -> promiseFn(h, sub, d)
      [] OTHER ->
            LET h1 == [h EXCEPT !.delivered =
                                   Append(@, [to |-> sub, from |-> e, d |-> d])]
            IN  CASE sub = "u" -> unsubscribe(h1, "A", "g")
                  [] sub = "t" -> [h1 EXCEPT !.threw = TRUE]
                  [] sub = "s" -> subscribe(h1, "A", "g")
                  [] sub = "r" -> subscribeAndReplay(h1, "A", "g")
                  [] OTHER     -> h1

\* mutant: what is thrown inside the emit of a subscribed emitter is thrown on
propagateEmit_rethrows(h, e, sub, d) ==
    IF sub \in Emitters THEN emit(h, sub, d) ELSE invoke(h, e, sub, d)

propagateEmit(h, e, sub, d) ==
    IF sub \in Emitters
    THEN \* sub.emit(data): an exception inside an async function rejects the
         \* promise it returned, it is not thrown to the caller
         [emit(h, sub, d) EXCEPT !.threw = FALSE]
    ELSE invoke(h, e, sub, d)

\* mutant: what a subscriber throws is caught, the loop goes on
emitLoop_caught(h, e, d, i) ==
    IF i > Len(h.subscriptions[e]) THEN h
    ELSE LET sub == h.subscriptions[e][i]
         IN  IF sub = Empty THEN emitLoop(h, e, d, i + 1)
             ELSE emitLoop([propagateEmit(h, e, sub, d) EXCEPT !.threw = FALSE],
                           e, d, i + 1)

emitLoop(h, e, d, i) ==
    IF i > Len(h.subscriptions[e]) THEN h
    ELSE LET sub == h.subscriptions[e][i]
         IN  IF sub = Empty THEN emitLoop(h, e, d, i + 1)
             ELSE LET h1 == propagateEmit(h, e, sub, d)
                  IN  IF h1.threw THEN h1 ELSE emitLoop(h1, e, d, i + 1)

\* mutant: unshift for push, the value is put in front of the cache
emit_unshift(h, e, d) ==
    LET pushed == [h EXCEPT !.replayCache[e] = <<d>> \o @,
                            !.dispatched[e] = Append(@, d)]
    IN  emitLoop(updateReplayCache(pushed, e), e, d, 1)

emit(h, e, d) ==
    LET pushed == [h EXCEPT !.replayCache[e] = Append(@, d),
                            !.dispatched[e] = Append(@, d)]
    IN  emitLoop(updateReplayCache(pushed, e), e, d, 1)

(***************************************************************************)
(* An operator call on emitter e (index.ts 736-740 and 847-972).  With     *)
(* rel = "emitter" the argument emitterReleaser(R) is evaluated first and  *)
(* subscribes its function to R (operators.spec.ts 287-293).  The child is *)
(* constructed with the parent's replayMax.  debounceTime sets a timer     *)
(* when it is called (releasers.ts 320); that timer closes over no value.  *)
(***************************************************************************)
\* mutant: the child is made with the default options
getChildEmitter_default(h, e, o) == setOptions(h, o, 0)

getChildEmitter(h, e, o) == setOptions(h, o, h.replayMax[e])

operator(h, e, o, rel, n) ==
    LET h0 == IF rel = "emitter" THEN subscribe(h, "R", RelFn[o]) ELSE h
        h1 == getChildEmitter(h0, e, o)
        h2 == [h1 EXCEPT !.ops[o] = [NoOp EXCEPT !.created = TRUE,
                                                 !.rel = rel, !.n = n]]
        h3 == subscribe(h2, e, Fn[o])
    IN  IF o = "debounceTime"
        THEN [h3 EXCEPT !.timers = Append(@, [o |-> o, d |-> Scalar(0)])]
        ELSE h3

(***************************************************************************)
(* promise() on emitter e (index.ts 800-808): a new Promise whose executor *)
(* subscribes fn; the Subscription that subscribe returns is dropped.      *)
(* `at` and `before` are history: how many values e had dispatched, and    *)
(* its subscription set, when promise() was called.                        *)
(***************************************************************************)
promise(h, e) ==
    LET fn == PromiseFns[Len(h.promises) + 1]
        made == [e |-> e, state |-> "pending", value |-> <<>>,
                 at |-> Len(h.dispatched[e]), before |-> h.subscriptions[e]]
        h1 == [h EXCEPT !.promises = Append(@, made)]
    IN  [subscribe(h1, e, fn) EXCEPT !.handles = h.handles]

(***************************************************************************)
(* subscribeAndReplay (index.ts 760-768).                                  *)
(***************************************************************************)
replayLoop(h, e, x, cached, i) ==
    IF i > Len(cached) THEN h
    ELSE LET h1 == propagateEmit(h, e, x, cached[i])
         IN  IF h1.threw THEN h1 ELSE replayLoop(h1, e, x, cached, i + 1)

subscribeAndReplay(h, e, x) ==
    LET h1 == subscribe(h, e, x)
    IN  IF h1.threw THEN h1 ELSE replayLoop(h1, e, x, h1.replayCache[e], 1)

(***************************************************************************)
(* emitAll(dataList) (index.ts 837-841): `await this.emit(data)` for every *)
(* element.  The emit of the first element runs inside the call; every     *)
(* await, also of a promise that is already fulfilled, resumes in a later  *)
(* microtask.  A job of kind "emitAll" is the loop suspended at line 839,  *)
(* `rest` the elements not emitted yet.  An emit that threw rejects the    *)
(* awaited promise: the loop ends there, and the promise emitAll returned  *)
(* is rejected (the flag `threw` of the heap it leaves).                   *)
(***************************************************************************)
\* mutant: no await, every element is emitted inside the call
RECURSIVE emitAll_sync(_, _, _)
emitAll_sync(h, e, rest) ==
    IF rest = <<>> THEN [heap |-> h, jobs |-> <<>>]
    ELSE LET h1 == emit(h, e, Head(rest))
         IN  IF h1.threw THEN [heap |-> h1, jobs |-> <<>>]
             ELSE emitAll_sync(h1, e, Tail(rest))

\* mutant: the list is walked from its end
emitAll_reversed(h, e, rest) ==
    IF rest = <<>> THEN [heap |-> h, jobs |-> <<>>]
    ELSE [heap |-> emit(h, e, rest[Len(rest)]),
          jobs |-> <<[t |-> "emitAll", e |-> e,
                      rest |-> SubSeq(rest, 1, Len(rest) - 1)]>>]

emitAll(h, e, rest) ==
    IF rest = <<>> THEN [heap |-> h, jobs |-> <<>>]
    ELSE LET h1 == emit(h, e, Head(rest))
         IN  [heap |-> h1,
              jobs |-> IF h1.threw THEN <<>>
                       ELSE <<[t |-> "emitAll", e |-> e, rest |-> Tail(rest)]>>]

(***************************************************************************)
(* The job at the head of the microtask queue, run to its next await: the  *)
(* rest of an emit whose promise was fulfilled (from line 818 on), the     *)
(* await of line 816 throwing the reason of a promise that was rejected,   *)
(* or the next round of an emitAll loop.  The flag `threw` of the heap it  *)
(* leaves tells that the job ended in an exception, which rejects the      *)
(* promise the async function returned.                                    *)
(***************************************************************************)
\* mutant: the rejection is caught and dropped, the emit completes normally
runJob_caught(h, job) ==
    CASE job.t = "emit" ->
            [heap |-> emit(h, job.e, Head(job.rest)), jobs |-> <<>>]
      [] job.t = "emitRejected" -> [heap |-> h, jobs |-> <<>>]
      [] OTHER -> emitAll(h, job.e, job.rest)

runJob(h, job) ==
    CASE job.t = "emit" ->
            [heap |-> emit(h, job.e, Head(job.rest)), jobs |-> <<>>]
      [] job.t = "emitRejected" ->
            [heap |-> [h EXCEPT !.threw = TRUE], jobs |-> <<>>]
      [] OTHER -> emitAll(h, job.e, job.rest)

\* the state of the promise an async call returned, after a stretch of it
Outcome(r) ==
    IF r.heap.threw THEN "rejected"
    ELSE IF r.jobs # <<>> THEN "pending" ELSE "fulfilled"

\* the continuations of call c
Tagged(jobs, c) ==
    [i \in DOMAIN jobs |->
        [t |-> jobs[i].t, e |-> jobs[i].e, rest |-> jobs[i].rest, c |-> c]]

(***************************************************************************)
(* The state after construction: new Emitter() on every emitter (index.ts  *)
(* 700-713; the options of the constructor are passed to setOptions, which *)
(* is the action SetOptions), nothing subscribed, nothing emitted.         *)
(***************************************************************************)
Call(op, self, threw, changed) ==
    [op |-> op, self |-> self, threw |-> threw, changed |-> changed]

Init ==
    /\ subscriptions = [e \in Emitters |-> <<>>]
    /\ replayMax = [e \in Emitters |-> 0]
    /\ replayCache = [e \in Emitters |-> <<>>]
    /\ handles = {}
    /\ delivered = <<>>
    /\ awaiting = <<>>
    /\ microtasks = <<>>
    /\ timers = <<>>
    /\ calls = <<>>
    /\ results = <<>>
    /\ dispatched = [e \in Emitters |-> <<>>]
    /\ configured = [e \in Emitters |-> 0]
    /\ ops = [o \in Ops |-> NoOp]
    /\ lastOp = [p \in {} |-> "none"]
    /\ lastCall = Call("new", FALSE, FALSE, FALSE)
    /\ merged = NoMerge
    /\ promises = <<>>

(***************************************************************************)
(* The end of a synchronous stretch: the heap it leaves is the next state. *)
(* The holes of the Sets are dropped: no loop is running any more.         *)
(***************************************************************************)
Commit(h) ==
    /\ subscriptions' = [e \in Emitters |-> Compact(h.subscriptions[e])]
    /\ replayMax' = h.replayMax
    /\ replayCache' = h.replayCache
    /\ handles' = h.handles
    /\ delivered' = h.delivered
    /\ dispatched' = h.dispatched
    /\ configured' = h.configured
    /\ ops' = h.ops
    /\ lastOp' = h.lastOp
    /\ timers' = h.timers
    /\ merged' = h.merged
    /\ promises' = h.promises

Returned(op, e, x, h) ==
    Call(op, x = e, h.threw,
         [a \in Emitters |-> Compact(h.subscriptions[a])] # subscriptions)

\* an async function returns a promise, it never throws to its caller
ReturnedAsync(op, h) ==
    Call(op, FALSE, FALSE,
         [a \in Emitters |-> Compact(h.subscriptions[a])] # subscriptions)

(***************************************************************************)
(* The calls of the environment.  The model keeps the graph of emitter     *)
(* subscribers acyclic (only B subscribes to A): a cycle of emitters never *)
(* ends a synchronous emit.  An emitter subscribing to itself is tried.    *)
(***************************************************************************)
CanSubscribe(e, x) ==
    \/ x \in Callbacks \/ x = e \/ (e = "A" /\ x = "B")
    \/ (e \in {"A", "B"} /\ x = "M")

RECURSIVE SumLen(_)
SumLen(cs) == IF cs = <<>> THEN 0 ELSE Len(Head(cs).list) + SumLen(Tail(cs))
Emitted == SumLen(calls)

\* the next n values the environment hands over
NextValues(n) == [i \in 1..n |-> Scalar(Emitted + i)]

Subscribe(e, x) ==
    /\ CanSubscribe(e, x)
    /\ LET h == subscribe(Heap, e, x)
       IN  Commit(h) /\ lastCall' = Returned("subscribe", e, x, h)
    /\ UNCHANGED <<awaiting, microtasks, calls, results>>

SubscribeTo(x, e) ==
    /\ x \in Emitters /\ CanSubscribe(e, x)
    /\ LET h == subscribeTo(Heap, x, e)
       IN  Commit(h) /\ lastCall' = Returned("subscribeTo", e, x, h)
    /\ UNCHANGED <<awaiting, microtasks, calls, results>>

SubscribeAndReplay(e, x) ==
    /\ CanSubscribe(e, x)
    /\ LET h == subscribeAndReplay(Heap, e, x)
       IN  Commit(h) /\ lastCall' = Returned("subscribeAndReplay", e, x, h)
    /\ UNCHANGED <<awaiting, microtasks, calls, results>>

Unsubscribe(e, x) ==
    /\ CanSubscribe(e, x)
    /\ LET h == unsubscribe(Heap, e, x)
       IN  Commit(h) /\ lastCall' = Returned("unsubscribe", e, x, h)
    /\ UNCHANGED <<awaiting, microtasks, calls, results>>

\* Subscription.unsubscribe() on a handle that a subscribe has returned
Cancel(e, x) ==
    /\ <<e, x>> \in handles
    /\ LET h == Subscription_unsubscribe(Heap, e, x)
       IN  Commit(h) /\ lastCall' = Returned("cancel", e, x, h)
    /\ UNCHANGED <<awaiting, microtasks, calls, results>>

\* e.filter(fn), e.map(fn), ..., e.wait(releaser): operator o is called on e
Operator(e, o, rel, n) ==
    /\ ~ops[o].created
    /\ (o \in Gates) = (rel # "none")
    /\ LET h == operator(Heap, e, o, rel, n)
       IN  Commit(h) /\ lastCall' = Returned("operator", e, "-", h)
    /\ UNCHANGED <<awaiting, microtasks, calls, results>>

SetOptions(e, n) ==
    /\ LET h == setOptions(Heap, e, n)
       IN  Commit(h) /\ lastCall' = Returned("setOptions", e, "-", h)
    /\ UNCHANGED <<awaiting, microtasks, calls, results>>

\* e.promise()
MakePromise(e) ==
    /\ Len(promises) < Len(PromiseFns)
    /\ LET h == promise(Heap, e)
       IN  Commit(h) /\ lastCall' = Returned("promise", e, "-", h)
    /\ UNCHANGED <<awaiting, microtasks, calls, results>>

\* merge(...args), and start() and stop() on an emitter
Merge(args) ==
    /\ ~merged.created
    /\ LET h == merge(Heap, args)
       IN  Commit(h) /\ lastCall' = Returned("merge", "M", "-", h)
    /\ UNCHANGED <<awaiting, microtasks, calls, results>>

Start(e) ==
    /\ LET h == start(Heap, e)
       IN  Commit(h) /\ lastCall' = Returned("start", e, "-", h)
    /\ UNCHANGED <<awaiting, microtasks, calls, results>>

Stop(e) ==
    /\ LET h == stop(Heap, e)
       IN  Commit(h) /\ lastCall' = Returned("stop", e, "-", h)
    /\ UNCHANGED <<awaiting, microtasks, calls, results>>

(***************************************************************************)
(* emit(data) (index.ts 814-823).  With a value that is no Promise the     *)
(* whole body runs inside the call.  With a Promise the call suspends at   *)
(* the await of line 816 and returns; the rest of the body is a job that   *)
(* is queued when the promise settles.                                     *)
(***************************************************************************)
\* mutant: line 815-817 missing, a Promise is propagated as it is
Emit_noAwait(e, d) ==
    /\ Emitted < MaxEmits
    /\ LET h == emit(Heap, e, d)
       IN  /\ Commit(h) /\ lastCall' = ReturnedAsync("emit", h)
           /\ results' = Append(results, IF h.threw THEN "rejected" ELSE "fulfilled")
    /\ calls' = Append(calls, [op |-> IF isPromise(d) THEN "emitPromise" ELSE "emit",
                               e |-> e,
                               list |-> IF isPromise(d) THEN <<d.v>> ELSE <<d>>])
    /\ UNCHANGED <<awaiting, microtasks>>

\* mutant: data is awaited whatever it is, the body runs in a later microtask
Emit_deferred(e, d) ==
    /\ Emitted < MaxEmits
    /\ microtasks' = Append(microtasks,
                            [t |-> "emit", e |-> e, c |-> Len(calls) + 1,
                             rest |-> IF isPromise(d) THEN <<d.v>> ELSE <<d>>])
    /\ lastCall' = ReturnedAsync("emit", Heap)
    /\ calls' = Append(calls, [op |-> IF isPromise(d) THEN "emitPromise" ELSE "emit",
                               e |-> e,
                               list |-> IF isPromise(d) THEN <<d.v>> ELSE <<d>>])
    /\ results' = Append(results, "pending")
    /\ UNCHANGED <<subscriptions, replayMax, replayCache, handles, delivered,
                   dispatched, configured, ops, lastOp, timers, awaiting,
                   merged, promises>>

\* mutant: the promise is not awaited, the pass for its value runs inside the call
Emit_eager(e, d) ==
    /\ Emitted < MaxEmits
    /\ LET h == emit(Heap, e, IF isPromise(d) THEN d.v ELSE d)
       IN  /\ Commit(h) /\ lastCall' = ReturnedAsync("emit", h)
           /\ results' = Append(results, IF h.threw THEN "rejected" ELSE "fulfilled")
    /\ calls' = Append(calls, [op |-> IF isPromise(d) THEN "emitPromise" ELSE "emit",
                               e |-> e,
                               list |-> IF isPromise(d) THEN <<d.v>> ELSE <<d>>])
    /\ UNCHANGED <<awaiting, microtasks>>

Emit(e, d) ==
    /\ Emitted < MaxEmits
    /\ IF isPromise(d)
       THEN /\ awaiting' = Append(awaiting, [t |-> "emit", e |-> e, rest |-> <<d.v>>,
                                             c |-> Len(calls) + 1])
            /\ lastCall' = ReturnedAsync("emit", Heap)
            /\ results' = Append(results, "pending")
            /\ UNCHANGED <<subscriptions, replayMax, replayCache, handles,
                           delivered, dispatched, configured, ops, lastOp, timers,
                           merged, promises>>
       ELSE /\ LET h == emit(Heap, e, d)
               IN  /\ Commit(h) /\ lastCall' = ReturnedAsync("emit", h)
                   /\ results' = Append(results,
                                        IF h.threw THEN "rejected" ELSE "fulfilled")
            /\ UNCHANGED awaiting
    /\ calls' = Append(calls, [op |-> IF isPromise(d) THEN "emitPromise" ELSE "emit",
                               e |-> e,
                               list |-> IF isPromise(d) THEN <<d.v>> ELSE <<d>>])
    /\ UNCHANGED microtasks

Remove(q, i) ==
    [j \in 1..(Len(q) - 1) |-> IF j < i THEN q[j] ELSE q[j + 1]]

\* the promise an emit is suspended on is fulfilled: its continuation is queued
Settle(i) ==
    /\ i \in DOMAIN awaiting
    /\ microtasks' = Append(microtasks, awaiting[i])
    /\ awaiting' = Remove(awaiting, i)
    /\ lastCall' = Call("settle", FALSE, FALSE, FALSE)
    /\ UNCHANGED <<subscriptions, replayMax, replayCache, handles, delivered,
                   calls, results, dispatched, configured, ops, lastOp, timers,
                   merged, promises>>

\* the promise an emit is suspended on is rejected: the await of line 816
\* will throw when the continuation runs
Reject(i) ==
    /\ i \in DOMAIN awaiting
    /\ microtasks' = Append(microtasks, [awaiting[i] EXCEPT !.t = "emitRejected"])
    /\ awaiting' = Remove(awaiting, i)
    /\ lastCall' = Call("reject", FALSE, FALSE, FALSE)
    /\ calls' = [calls EXCEPT ![awaiting[i].c].op = "emitRejected"]
    /\ UNCHANGED <<subscriptions, replayMax, replayCache, handles, delivered,
                   results, dispatched, configured, ops, lastOp, timers,
                   merged, promises>>

EmitAll(e, l) ==
    /\ Emitted + Len(l) <= MaxEmits
    /\ LET r == emitAll(Heap, e, l)
       IN  /\ Commit(r.heap)
           /\ microtasks' = microtasks \o Tagged(r.jobs, Len(calls) + 1)
           /\ lastCall' = ReturnedAsync("emitAll", r.heap)
           /\ results' = Append(results, Outcome(r))
    /\ calls' = Append(calls, [op |-> "emitAll", e |-> e, list |-> l])
    /\ UNCHANGED awaiting

\* one turn of the microtask queue
RunMicrotask ==
    /\ microtasks # <<>>
    /\ LET job == Head(microtasks)
           r == runJob(Heap, job)
       IN  /\ Commit(r.heap)
           /\ microtasks' = Tail(microtasks) \o Tagged(r.jobs, job.c)
           /\ lastCall' = ReturnedAsync("job", r.heap)
           /\ results' = [results EXCEPT ![job.c] = Outcome(r)]
    /\ UNCHANGED <<awaiting, calls>>

\* a timer fires: a task of its own, taken when no microtask is left.  The
\* timers of one releaser have the same delay and fire in arming order.
Fire(i) ==
    /\ microtasks = <<>>
    /\ i \in DOMAIN timers
    /\ \A j \in 1..(i - 1) : timers[j].o # timers[i].o
    /\ LET h == timerFn([Heap EXCEPT !.timers = Remove(timers, i)],
                        timers[i].o, timers[i].d)
       IN  Commit(h) /\ lastCall' = Returned("fire", "-", timers[i].o, h)
    /\ calls' = Append(calls, [op |-> "fire", e |-> timers[i].o, list |-> <<>>])
    /\ results' = Append(results, "none")
    /\ UNCHANGED <<awaiting, microtasks>>

(***************************************************************************)
(* SpecSub: subscription management alone.  Callbacks f and g and both     *)
(* emitters are subscribed, looked up and removed in any order.            *)
(***************************************************************************)
NextSub ==
    \/ \E e \in {"A", "B"}, x \in {"f", "g", "A", "B"} : Subscribe(e, x)
    \/ \E e \in {"A", "B"}, x \in {"A", "B"} : SubscribeTo(x, e)
    \/ \E e \in {"A", "B"}, x \in {"f", "g", "A", "B"} : Unsubscribe(e, x)
    \/ \E e \in {"A", "B"}, x \in Subscribers : Cancel(e, x)

SpecSub == Init /\ [][NextSub]_vars

(***************************************************************************)
(* C1.  subscribed(x) is true exactly when the last call that was to       *)
(* change the membership of x (subscribe or subscribeTo on one side,       *)
(* unsubscribe or Subscription.unsubscribe on the other) was a subscribe,  *)
(* for callbacks and emitters alike.                                       *)
(***************************************************************************)
C1_NetMembership ==
    \A e \in Emitters, x \in Subscribers :
        subscribed(Heap, e, x) <=> LastOp(e, x) = "subscribe"

\* a callback that was subscribed and is cancelled, beside an emitter that is
\* subscribed
C1_Witness ==
    /\ <<"A", "f">> \in handles /\ LastOp("A", "f") = "unsubscribe"
    /\ ~subscribed(Heap, "A", "f")
    /\ subscribed(Heap, "A", "B")

(***************************************************************************)
(* C2.  e.subscribe(e) and e.subscribeTo(e) raise the circular-reference   *)
(* error and change no subscription set; no emitter is ever a member of    *)
(* its own set.                                                            *)
(***************************************************************************)
C2_SelfSubscribeFails ==
    /\ (lastCall.op \in {"subscribe", "subscribeTo"} /\ lastCall.self)
           => (lastCall.threw /\ ~lastCall.changed)
    /\ \A e \in Emitters : ~subscribed(Heap, e, e)

\* B.subscribeTo(B) was tried on an emitter that has subscribers
C2_Witness ==
    /\ lastCall.op = "subscribeTo" /\ lastCall.self /\ lastCall.threw
    /\ subscriptions["B"] # <<>>


(***************************************************************************)
(* SpecReplay: the replay cache of emitter A.  The options are set at any  *)
(* time, values are emitted one by one or as a list, and the callbacks f   *)
(* and g subscribe with replay while they are not subscribed.              *)
(***************************************************************************)
NextReplay ==
    \/ \E n \in 0..MaxReplay : SetOptions("A", n)
    \/ Emit("A", NextValues(1)[1])
    \/ \E n \in 1..MaxEmits : EmitAll("A", NextValues(n))
    \/ RunMicrotask
    \/ \E x \in {"f", "g"} : ~subscribed(Heap, "A", x) /\ SubscribeAndReplay("A", x)

SpecReplay == Init /\ [][NextReplay]_vars

\* the emissions dispatched by e since its options were last set
SinceConfigured(e) == Len(dispatched[e]) - configured[e]

Replayed(e, x, n) ==
    [i \in 1..n |-> [to |-> x, from |-> e,
                     d |-> dispatched[e][Len(dispatched[e]) - n + i]]]

C4_CacheBound ==
    \A e \in Emitters : Len(replayCache[e]) <= replayMax[e]

(***************************************************************************)
(* C5.  On an emitter whose replayMax has been 0 during all its emissions  *)
(* (the default), subscribing with replay delivers no past value.          *)
(***************************************************************************)
C5_NoReplayByDefault ==
    [][\A x \in Callbacks :
          ( /\ replayMax["A"] = 0 /\ configured["A"] = 0
            /\ SubscribeAndReplay("A", x) )
          => delivered' = delivered]_vars


(***************************************************************************)
(* SpecEmit: emission on A.  First the subscribers are put in place, in    *)
(* any order (the callbacks f, g and u and the emitter B on A, f on B);    *)
(* then values are emitted on A, as plain values, as promises and as       *)
(* lists, and the promises settle and the queued jobs run in any           *)
(* interleaving.                                                           *)
(***************************************************************************)
Setup == calls = <<>>

NextEmit ==
    \/ \E x \in {"f", "g", "u", "B"} : Setup /\ Subscribe("A", x)
    \/ Setup /\ Subscribe("B", "f")
    \/ Emit("A", NextValues(1)[1])
    \/ Emit("A", Promise(NextValues(1)[1]))
    \/ \E i \in DOMAIN awaiting : Settle(i)
    \/ \E n \in 1..MaxEmits : EmitAll("A", NextValues(n))
    \/ RunMicrotask

SpecEmit == Init /\ [][NextEmit]_vars

InList(d, l) == \E i \in DOMAIN l : l[i] = d
IndexOf(d, l) == CHOOSE i \in DOMAIN l : l[i] = d
Restrict(q, l) == SelectSeq(q, LAMBDA d : InList(d, l))
Data(q) == [i \in DOMAIN q |-> q[i].d]
\* the values callback x was called with by emitter e, in call order
Received(x, e) == Data(SelectSeq(delivered, LAMBDA r : r.to = x /\ r.from = e))
\* the values emitter e called its function subscribers with, in call order
Passed(e) == Data(SelectSeq(delivered, LAMBDA r : r.from = e))

(***************************************************************************)
(* C6.  For every emitAll(list) on e: the passes of its elements begin in  *)
(* the order of the list; the calls e makes for them are grouped by        *)
(* element, in list order (no call of a later element comes before a call  *)
(* of an earlier one); and when k passes have begun every callback that    *)
(* is subscribed to e has been called with exactly the first k elements,   *)
(* in order.                                                               *)
(***************************************************************************)
C6_EmitAllOrder ==
    \A c \in DOMAIN calls :
        calls[c].op = "emitAll" =>
            LET e == calls[c].e
                l == calls[c].list
                k == Len(Restrict(dispatched[e], l))
                passes == Restrict(Passed(e), l)
            IN  /\ Restrict(dispatched[e], l) = SubSeq(l, 1, k)
                /\ \A p, q \in DOMAIN passes :
                       p < q => IndexOf(passes[p], l) <= IndexOf(passes[q], l)
                /\ \A x \in Callbacks :
                       subscribed(Heap, e, x) =>
                           Restrict(Received(x, e), l) = SubSeq(l, 1, k)

\* an emitAll of three values on A is through, f and u subscribed all along
C6_Witness ==
    \E c \in DOMAIN calls :
        /\ calls[c].op = "emitAll" /\ Len(calls[c].list) = 3
        /\ Restrict(dispatched["A"], calls[c].list) = calls[c].list
        /\ subscribed(Heap, "A", "f") /\ subscribed(Heap, "A", "u")
        /\ Len(Received("f", "A")) = 3

(***************************************************************************)
(* C7.  As stated: in the state in which emitAll(list) has just returned,  *)
(* every callback subscribed to the emitter has been called with all the   *)
(* elements of the list, in order.                                         *)
(***************************************************************************)
JustReturned(op) == lastCall.op = op /\ calls # <<>> /\ calls[Len(calls)].op = op

C7_AllAtReturn ==
    JustReturned("emitAll") =>
        LET c == calls[Len(calls)]
        IN  \A x \in Callbacks :
                subscribed(Heap, c.e, x) => Restrict(Received(x, c.e), c.list) = c.list

(***************************************************************************)
(* C7, amended.  In the state in which emitAll(list) has just returned,    *)
(* every callback subscribed to the emitter has been called with the first *)
(* element of the list and with no other element of it.                    *)
(***************************************************************************)
C7_FirstAtReturn ==
    JustReturned("emitAll") =>
        LET c == calls[Len(calls)]
        IN  \A x \in Callbacks :
                subscribed(Heap, c.e, x) =>
                    Restrict(Received(x, c.e), c.list) = SubSeq(c.list, 1, 1)

\* emitAll([1, 2, 3]) has just returned and f was called with 1 only
C7_Witness ==
    /\ JustReturned("emitAll") /\ Len(calls[Len(calls)].list) = 3
    /\ subscribed(Heap, "A", "f")
    /\ Received("f", "A") = <<Scalar(1)>>

(***************************************************************************)
(* C8.  While an emit called with a promise of v has not run its           *)
(* continuation, v is in no replay cache, no pass for v has begun and no   *)
(* callback was called with v; once it has, every callback subscribed to   *)
(* the emitter was called with v, once.  Nothing is ever called with, and  *)
(* no cache ever holds, the promise itself.                                *)
(***************************************************************************)
Pending(e, v) ==
    \E q \in {awaiting, microtasks} :
        \E i \in DOMAIN q : q[i].t = "emit" /\ q[i].e = e /\ q[i].rest = <<v>>

C8_AwaitBeforeNotify ==
    /\ \A c \in DOMAIN calls :
           calls[c].op = "emitPromise" =>
               LET e == calls[c].e
                   v == calls[c].list[1]
               IN  IF Pending(e, v)
                   THEN /\ \A a \in Emitters : ~InList(v, replayCache[a])
                        /\ \A a \in Emitters : ~InList(v, dispatched[a])
                        /\ \A i \in DOMAIN delivered : delivered[i].d # v
                   ELSE /\ InList(v, dispatched[e])
                        /\ \A x \in Callbacks :
                               subscribed(Heap, e, x) =>
                                   Restrict(Received(x, e), <<v>>) = <<v>>
    /\ \A i \in DOMAIN delivered : ~isPromise(delivered[i].d)
    /\ \A a \in Emitters : \A i \in DOMAIN replayCache[a] : ~isPromise(replayCache[a][i])

\* one promise is still pending while the value of another was delivered
C8_Witness ==
    \E c1, c2 \in DOMAIN calls :
        /\ calls[c1].op = "emitPromise" /\ calls[c2].op = "emitPromise"
        /\ Pending("A", calls[c1].list[1])
        /\ ~Pending("A", calls[c2].list[1])
        /\ InList(calls[c2].list[1], Received("f", "A"))

(***************************************************************************)
(* C10.  As stated: a subscriber that was subscribed when a pass began and *)
(* that is unsubscribed during the pass is still called with the value of  *)
(* that pass.                                                              *)
(***************************************************************************)
Last(q) == q[Len(q)]

C10_UnsubscribedStillNotified ==
    [][\A e \in Emitters :
          dispatched'[e] # dispatched[e] =>
              \A x \in Callbacks :
                  (subscribed(Heap, e, x) /\ ~SetHas(subscriptions'[e], x)) =>
                      \E i \in (Len(delivered) + 1)..Len(delivered') :
                          delivered'[i] = [to |-> x, from |-> e,
                                           d |-> Last(dispatched'[e])]]_vars

(***************************************************************************)
(* Operators.  One operator is called on A before the first emission, with *)
(* a releaser that releases inside the call (countReleaser, lengthReleaser)*)
(* or on an emission of R (emitterReleaser); f is subscribed to A, to the  *)
(* emitter B that is subscribed to A, and to the operator's child.  Then   *)
(* plain values are emitted on A and on R.                                 *)
(***************************************************************************)
\* the arguments a releaser is made with
RelArgs(rel) ==
    CASE rel = "count"  -> 1..CountMax
      [] rel = "length" -> 1..LengthMax
      [] OTHER          -> {0}

NoOperator == \A o \in Ops : ~ops[o].created

NextOps ==
    \/ \E o \in Ops \ (Gates \cup Timed) :
           \E n \in (IF o = "cache" THEN 0..CacheSize ELSE {0}) :
               Setup /\ NoOperator /\ Operator("A", o, "none", n)
    \/ \E o \in Gates : \E rel \in {"emitter", "count", "length"} :
           \E n \in RelArgs(rel) : Setup /\ NoOperator /\ Operator("A", o, rel, n)
    \/ Setup /\ Subscribe("A", "B")
    \/ \E e \in {"A", "B"} \cup {o \in Ops : ops[o].created} :
           Setup /\ Subscribe(e, "f")
    \/ \E e \in {"A", "R"} : Emit(e, NextValues(1)[1])

SpecOps == Init /\ [][NextOps]_vars

(***************************************************************************)
(* C9.  A call emit(v) on e with a plain value v leaves no job behind, and *)
(* inside the call every callback was called that is subscribed to e, to   *)
(* an emitter subscribed to e, or to the child of an operator of e that    *)
(* forwards on this value: filter when the predicate holds, map, reduce,   *)
(* cache and unpack always, pass when its gate is open, wait and buffer    *)
(* when their releaser releases on this call.                              *)
(***************************************************************************)
\* the operator called on the emitter forwards to its child when called with d
Forwards(o, d) ==
    CASE o = "filter" -> filterFn(d)
      [] o = "pass"   -> ops[o].ok
      [] o = "wait"   -> ops[o].rel = "count" /\ ops[o].count + 1 >= ops[o].n
      [] o = "buffer" -> \/ ops[o].rel = "count" /\ ops[o].count + 1 >= ops[o].n
                         \/ ops[o].rel = "length" /\ Len(ops[o].buf) + 1 = ops[o].n
      [] o \in Timed  -> FALSE
      [] OTHER        -> TRUE

\* the emitters a pass begins on inside a call emit(d) on e
Downstream(e, d) ==
    {e} \cup {b \in Emitters : subscribed(Heap, e, b)}
        \cup {o \in Ops : subscribed(Heap, e, Fn[o]) /\ Forwards(o, d)}
        \cup {o \in {"wait", "buffer"} :
                 subscribed(Heap, e, RelFn[o]) /\ ops[o].held # <<>>}

C9_SynchronousDelivery ==
    [][(Len(calls') > Len(calls) /\ calls'[Len(calls')].op = "emit") =>
          LET c == calls'[Len(calls')]
          IN  /\ UNCHANGED <<awaiting, microtasks>>
              /\ \A a \in Downstream(c.e, c.list[1]) :
                     \A x \in Callbacks :
                         subscribed(Heap, a, x) =>
                             \E i \in (Len(delivered) + 1)..Len(delivered') :
                                 delivered'[i].to = x /\ delivered'[i].from = a]_vars

\* an emit has just returned: in it f was called by B with the value and
\* then by the child of a gate that released, and no job is left
C9_Witness ==
    /\ lastCall.op = "emit" /\ calls # <<>> /\ delivered # <<>>
    /\ awaiting = <<>> /\ microtasks = <<>>
    /\ delivered[Len(delivered)].from \in Gates
    /\ \E i \in DOMAIN delivered :
           delivered[i] = [to |-> "f", from |-> "B", d |-> calls[Len(calls)].list[1]]

(***************************************************************************)
(* Errors.  f and the throwing callback t are subscribed to A and to the   *)
(* emitter B, itself subscribed to A; values and promises are emitted on   *)
(* A, and a promise is fulfilled or rejected.                              *)
(***************************************************************************)
NextErr ==
    \/ \E x \in {"f", "t", "B"} : Setup /\ Subscribe("A", x)
    \/ \E x \in {"f", "t"} : Setup /\ Subscribe("B", x)
    \/ Emit("A", NextValues(1)[1])
    \/ Emit("A", Promise(NextValues(1)[1]))
    \/ \E i \in DOMAIN awaiting : Settle(i)
    \/ \E i \in DOMAIN awaiting : Reject(i)
    \/ \E n \in 1..MaxEmits : EmitAll("A", NextValues(n))
    \/ RunMicrotask

SpecErr == Init /\ [][NextErr]_vars

\* a continuation of call c is waiting in the microtask queue
Queued(c) == \E i \in DOMAIN microtasks : microtasks[i].c = c

(***************************************************************************)
(* C11.  For an emit called with a promise that is rejected: its value is  *)
(* in no replay cache, no pass has begun for it on any emitter and no      *)
(* callback was called with it; the promise the emit returned is pending   *)
(* until the continuation has run and rejected from then on.               *)
(***************************************************************************)
C11_RejectionStopsEmission ==
    \A c \in DOMAIN calls :
        calls[c].op = "emitRejected" =>
            LET v == calls[c].list[1]
            IN  /\ \A a \in Emitters : ~InList(v, replayCache[a])
                /\ \A a \in Emitters : ~InList(v, dispatched[a])
                /\ \A i \in DOMAIN delivered : delivered[i].d # v
                /\ results[c] = IF Queued(c) THEN "pending" ELSE "rejected"

\* the continuation of a rejected emit has run, on an emitter with
\* subscribers that an earlier emission has reached
C11_Witness ==
    \E c \in DOMAIN calls :
        /\ calls[c].op = "emitRejected" /\ ~Queued(c)
        /\ c > 1 /\ calls[1].op = "emit"
        /\ Received("f", "A") = calls[1].list
        /\ Received("f", "B") = calls[1].list
        /\ replayCache["A"] = calls[1].list

(***************************************************************************)
(* C12.  As stated: an emit call in which a callback subscribed to the     *)
(* emitter threw has thrown to its caller.                                 *)
(***************************************************************************)
ThrewIn(c) ==
    \E i \in DOMAIN delivered :
        delivered[i] = [to |-> "t", from |-> calls[c].e, d |-> calls[c].list[1]]

C12_ThrowsOutOfEmit ==
    (lastCall.op = "emit" /\ calls # <<>> /\ calls[Len(calls)].op = "emit"
        /\ ThrewIn(Len(calls))) => lastCall.threw

(***************************************************************************)
(* C12, amended.  No emit call throws to its caller.  When a callback      *)
(* throws in a pass of an emitter, no subscriber is called after it in     *)
(* that pass; and when the pass is that of an emit call with a plain       *)
(* value, the promise that call returned is rejected.                      *)
(***************************************************************************)
C12_ThrowRejects ==
    /\ lastCall.op = "emit" => ~lastCall.threw
    /\ \A i, j \in DOMAIN delivered :
           (delivered[i].to = "t" /\ i < j) =>
               ~(delivered[j].from = delivered[i].from /\ delivered[j].d = delivered[i].d)
    /\ \A c \in DOMAIN calls :
           calls[c].op = "emit" =>
               (results[c] = IF ThrewIn(c) THEN "rejected" ELSE "fulfilled")

\* emit(1) on A has returned: t, subscribed before f, threw and f was not called
C12_Witness ==
    /\ subscriptions["A"] = <<"t", "f">>
    /\ lastCall.op = "emit" /\ Len(calls) = 1 /\ calls[1].op = "emit"
    /\ ThrewIn(1) /\ results = <<"rejected">>
    /\ Received("f", "A") = <<>>

(***************************************************************************)
(* C13.  Subscription.unsubscribe() on the handle of (e, x) raises no      *)
(* error and leaves every subscription set as it was, but for x removed    *)
(* from e's; when x is not subscribed to e (the handle was cancelled       *)
(* before, or x was removed with unsubscribe) it changes no set at all.    *)
(***************************************************************************)
C13_CancelIdempotent ==
    [][lastCall'.op = "cancel" =>
          \A p \in handles :
              Cancel(p[1], p[2]) =>
                  /\ ~lastCall'.threw
                  /\ subscriptions' = [subscriptions EXCEPT
                                          ![p[1]] = SelectSeq(@, LAMBDA y : y # p[2])]
                  /\ ~subscribed(Heap, p[1], p[2]) => subscriptions' = subscriptions]_vars

\* the handle of (A, f) was cancelled when f was not subscribed any more;
\* g and B are still subscribed to A
C13_Witness ==
    /\ lastCall.op = "cancel" /\ ~lastCall.changed /\ ~lastCall.threw
    /\ <<"A", "f">> \in handles /\ ~subscribed(Heap, "A", "f")
    /\ subscribed(Heap, "A", "g") /\ subscribed(Heap, "A", "B")

(***************************************************************************)
(* The emissions on A and on R of a run, by their position in `calls`.     *)
(***************************************************************************)
OnA(c) == c \in DOMAIN calls /\ calls[c].op = "emit" /\ calls[c].e = "A"
OnR(c) == c \in DOMAIN calls /\ calls[c].op = "emit" /\ calls[c].e = "R"
\* the values of the calls that satisfy P, in call order
ValuesOf(P(_)) ==
    LET sel == SelectSeq([c \in DOMAIN calls |-> c], P)
    IN  [k \in DOMAIN sel |-> calls[sel[k]].list[1]]
\* what the child of operator o has emitted, in order
Downstreamed(o) == dispatched[o]

(***************************************************************************)
(* C14.  As stated, for pass(emitterReleaser(R)): a value emitted on the   *)
(* source is forwarded exactly when it is the first one emitted after an   *)
(* emission of R.                                                          *)
(***************************************************************************)
AfterR(c) == OnA(c) /\ OnR(c - 1)

C14_FirstAfterReleaseForwarded ==
    (ops["pass"].created /\ ops["pass"].rel = "emitter") =>
        Downstreamed("pass") = ValuesOf(AfterR)

(***************************************************************************)
(* C14, amended.  For pass(emitterReleaser(R)): the gate is open exactly   *)
(* when the last emission was one of R and a source value had arrived      *)
(* before it; the values forwarded are exactly the source values that      *)
(* arrive when the gate is open, each forwarded once, in order.  A value   *)
(* is never forwarded later than on its arrival, and a value that arrives  *)
(* after R has fired is not forwarded when no source value had arrived     *)
(* before R fired.                                                         *)
(***************************************************************************)
AfterRelease(c) == AfterR(c) /\ \E b \in 1..(c - 2) : OnA(b)

C14_GateOpenForwards ==
    (ops["pass"].created /\ ops["pass"].rel = "emitter") =>
        /\ ops["pass"].ok = (OnR(Len(calls)) /\ \E b \in DOMAIN calls : OnA(b))
        /\ Downstreamed("pass") = ValuesOf(AfterRelease)

\* emit(1) on A, R fires, emit(3) on A: f was called by the child with 3 only
C14_Witness ==
    /\ ops["pass"].created /\ ops["pass"].rel = "emitter"
    /\ Len(calls) = 3 /\ OnA(1) /\ OnR(2) /\ OnA(3)
    /\ Received("f", "pass") = <<Scalar(3)>>
    /\ ~ops["pass"].ok

(***************************************************************************)
(* C15.  For buffer(emitterReleaser(R)): the child emits nothing on an     *)
(* emission of the source; on every emission of R that comes after a       *)
(* source value it emits one array, the source values that arrived since   *)
(* the release before, in order, the empty array when there are none.      *)
(***************************************************************************)
\* what the child has emitted after the calls from c on, `buf` being the
\* values not released yet, `out` the arrays emitted so far and `seen`
\* telling that a source value has arrived
RECURSIVE BufferRun(_, _, _, _)
BufferRun(c, buf, out, seen) ==
    IF c > Len(calls) THEN [out |-> out, buf |-> buf]
    ELSE IF OnA(c) THEN BufferRun(c + 1, Append(buf, calls[c].list[1]), out, TRUE)
    ELSE IF OnR(c) /\ seen THEN BufferRun(c + 1, <<>>, Append(out, Arr(buf)), seen)
    ELSE BufferRun(c + 1, buf, out, seen)

C15_BufferReleasedByEmitter ==
    (ops["buffer"].created /\ ops["buffer"].rel = "emitter") =>
        LET run == BufferRun(1, <<>>, <<>>, FALSE)
        IN  /\ Downstreamed("buffer") = run.out
            /\ subscribed(Heap, "buffer", "f") =>
                   Received("f", "buffer") = run.out

\* emit(1) on A, then R fires twice: f got [1] and then []
C15_Witness ==
    /\ ops["buffer"].created /\ ops["buffer"].rel = "emitter"
    /\ Len(calls) = 3 /\ OnA(1) /\ OnR(2) /\ OnR(3)
    /\ Received("f", "buffer") = <<Arr(<<Scalar(1)>>), Arr(<<>>)>>

(***************************************************************************)
(* Timers.  One of pass, wait and buffer is called on A with a releaser    *)
(* that sets a timer (delayReleaser, debounceReleaser, timeoutReleaser),   *)
(* or delay is called on A, and f is subscribed to its child; then values  *)
(* are emitted on A while the pending timers fire.  A timer that is        *)
(* pending and not cleared fires in the end: SpecTimersLive.               *)
(***************************************************************************)
NextTimers ==
    \/ \E o \in Gates : \E rel \in {"delay", "debounce", "timeout"} :
           Setup /\ NoOperator /\ Operator("A", o, rel, 0)
    \/ Setup /\ NoOperator /\ Operator("A", "delay", "none", 0)
    \/ \E o \in Gates \cup {"delay"} :
           Setup /\ ops[o].created /\ Subscribe(o, "f")
    \/ Emit("A", NextValues(1)[1])
    \/ \E i \in DOMAIN timers : Fire(i)

SpecTimers == Init /\ [][NextTimers]_vars

SpecTimersLive == SpecTimers /\ WF_vars(\E i \in DOMAIN timers : Fire(i))

Fired(c) == c \in DOMAIN calls /\ calls[c].op = "fire"
Timer(o, pending) == [i \in DOMAIN pending |-> [o |-> o, d |-> pending[i]]]

(***************************************************************************)
(* C16.  For wait(timeoutReleaser(t)): a source value that arrives while   *)
(* no timer is pending arms one; a source value that arrives while the     *)
(* timer is pending is never forwarded; each fire of the timer makes the   *)
(* child emit once, the value that armed it; at most one timer is pending. *)
(***************************************************************************)
\* `pending` is the value that armed the timer, `out` what the child emitted
RECURSIVE TimeoutRun(_, _, _)
TimeoutRun(c, pending, out) ==
    IF c > Len(calls) THEN [out |-> out, pending |-> pending]
    ELSE IF OnA(c) /\ pending = <<>> THEN TimeoutRun(c + 1, calls[c].list, out)
    ELSE IF Fired(c) THEN TimeoutRun(c + 1, <<>>, out \o pending)
    ELSE TimeoutRun(c + 1, pending, out)

C16_TimeoutWindow ==
    (ops["wait"].created /\ ops["wait"].rel = "timeout") =>
        LET run == TimeoutRun(1, <<>>, <<>>)
        IN  /\ Downstreamed("wait") = run.out
            /\ timers = Timer("wait", run.pending)
            /\ subscribed(Heap, "wait", "f") => Received("f", "wait") = run.out

\* emit(1), emit(2), the timer fires, emit(3), the timer fires: f got 1 and 3
C16_Witness ==
    /\ ops["wait"].created /\ ops["wait"].rel = "timeout"
    /\ Len(calls) = 5 /\ OnA(1) /\ OnA(2) /\ Fired(3) /\ OnA(4) /\ Fired(5)
    /\ Received("f", "wait") = <<Scalar(1), Scalar(3)>>

(***************************************************************************)
(* C17.  For wait(debounceReleaser(t)): the only timer pending is the one  *)
(* of the last source value; when it fires, which it does when no source   *)
(* value has arrived since, the child emits once, that value; the values   *)
(* that came before it in the burst are never forwarded.                   *)
(***************************************************************************)
RECURSIVE DebounceRun(_, _, _)
DebounceRun(c, pending, out) ==
    IF c > Len(calls) THEN [out |-> out, pending |-> pending]
    ELSE IF OnA(c) THEN DebounceRun(c + 1, calls[c].list, out)
    ELSE IF Fired(c) THEN DebounceRun(c + 1, <<>>, out \o pending)
    ELSE DebounceRun(c + 1, pending, out)

C17_DebounceBurst ==
    (ops["wait"].created /\ ops["wait"].rel = "debounce") =>
        LET run == DebounceRun(1, <<>>, <<>>)
        IN  /\ Downstreamed("wait") = run.out
            /\ timers = Timer("wait", run.pending)
            /\ subscribed(Heap, "wait", "f") => Received("f", "wait") = run.out

\* emit(1), emit(2), the timer fires, emit(3), the timer fires: f got 2 and 3
C17_Witness ==
    /\ ops["wait"].created /\ ops["wait"].rel = "debounce"
    /\ Len(calls) = 5 /\ OnA(1) /\ OnA(2) /\ Fired(3) /\ OnA(4) /\ Fired(5)
    /\ Received("f", "wait") = <<Scalar(2), Scalar(3)>>

(***************************************************************************)
(* C18.  For wait(countReleaser(N)): the child has emitted exactly the     *)
(* source values at the positions N, 2N, 3N, ... of the source's           *)
(* emissions, in order.                                                    *)
(***************************************************************************)
EveryNth(q, n) == [k \in 1..(Len(q) \div n) |-> q[k * n]]

C18_CountEveryNth ==
    (ops["wait"].created /\ ops["wait"].rel = "count") =>
        /\ Downstreamed("wait") = EveryNth(dispatched["A"], ops["wait"].n)
        /\ subscribed(Heap, "wait", "f") =>
               Received("f", "wait") = EveryNth(dispatched["A"], ops["wait"].n)

\* countReleaser(2) and three source values: f got the second one only
C18_Witness ==
    /\ ops["wait"].created /\ ops["wait"].rel = "count" /\ ops["wait"].n = 2
    /\ Len(dispatched["A"]) = 3
    /\ Received("f", "wait") = <<dispatched["A"][2]>>

(***************************************************************************)
(* C20.  As stated, for wait(emitterReleaser(R)): the child emits nothing  *)
(* on an emission of the source and once on every emission of R.           *)
(***************************************************************************)
C20_OnePerRelease ==
    (ops["wait"].created /\ ops["wait"].rel = "emitter") =>
        Len(Downstreamed("wait")) = Len(ValuesOf(OnR))

(***************************************************************************)
(* C20, amended.  For wait(emitterReleaser(R)): the child emits nothing on *)
(* an emission of the source; on every emission of R that comes after a    *)
(* source value it emits once, the most recent source value; on an         *)
(* emission of R that comes before every source value it emits nothing.    *)
(***************************************************************************)
RECURSIVE WaitRun(_, _, _)
WaitRun(c, latest, out) ==
    IF c > Len(calls) THEN out
    ELSE IF OnA(c) THEN WaitRun(c + 1, calls[c].list, out)
    ELSE IF OnR(c) THEN WaitRun(c + 1, latest, out \o latest)
    ELSE WaitRun(c + 1, latest, out)

C20_LatestPerRelease ==
    (ops["wait"].created /\ ops["wait"].rel = "emitter") =>
        /\ Downstreamed("wait") = WaitRun(1, <<>>, <<>>)
        /\ subscribed(Heap, "wait", "f") =>
               Received("f", "wait") = WaitRun(1, <<>>, <<>>)

\* emit(1), emit(2) on A, then R fires: f got 2
C20_Witness ==
    /\ ops["wait"].created /\ ops["wait"].rel = "emitter"
    /\ Len(calls) = 3 /\ OnA(1) /\ OnA(2) /\ OnR(3)
    /\ Received("f", "wait") = <<Scalar(2)>>

(***************************************************************************)
(* Arrays.  One of pass, wait and buffer is called on A with               *)
(* lengthReleaser(n) and f is subscribed to its child; then Arrays of 0 to *)
(* MaxLen elements and plain values are emitted on A.  The Array handed    *)
(* over as the k-th value holds the element k, as often as it is long.     *)
(***************************************************************************)
ArrayOf(len) == Arr([i \in 1..len |-> Scalar(Emitted + 1)])

NextArrays ==
    \/ \E o \in Gates : \E n \in RelArgs("length") :
           Setup /\ NoOperator /\ Operator("A", o, "length", n)
    \/ \E o \in Gates : Setup /\ ops[o].created /\ Subscribe(o, "f")
    \/ \E len \in 0..MaxLen : Emit("A", ArrayOf(len))
    \/ Emit("A", NextValues(1)[1])

SpecArrays == Init /\ [][NextArrays]_vars

(***************************************************************************)
(* C19.  For wait(lengthReleaser(N)): the child has emitted exactly the    *)
(* source values that are Arrays of N elements, in order; an Array that is *)
(* shorter or longer is never forwarded.                                   *)
(***************************************************************************)
HasLength(d, n) == isArray(d) /\ Len(d.v) = n

C19_LengthExactly ==
    (ops["wait"].created /\ ops["wait"].rel = "length") =>
        LET exact == SelectSeq(dispatched["A"],
                               LAMBDA d : HasLength(d, ops["wait"].n))
        IN  /\ Downstreamed("wait") = exact
            /\ subscribed(Heap, "wait", "f") => Received("f", "wait") = exact

\* lengthReleaser(2) and Arrays of 1, 2 and 3 elements: f got the second only
C19_Witness ==
    /\ ops["wait"].created /\ ops["wait"].rel = "length" /\ ops["wait"].n = 2
    /\ Len(dispatched["A"]) = 3
    /\ \A k \in 1..3 : HasLength(dispatched["A"][k], k)
    /\ Received("f", "wait") = <<dispatched["A"][2]>>

(***************************************************************************)
(* C21.  As stated, for cache(size) with any size >= 0: the child emits    *)
(* one snapshot per source value, and the snapshot emitted for the k-th    *)
(* source value is the last min(k, size) source values, in arrival order.  *)
(***************************************************************************)
Min(a, b) == IF a <= b THEN a ELSE b
\* the last min(k, n) of the first k elements of q
Window(q, k, n) == SubSeq(q, k - Min(k, n) + 1, k)

C21_SlidingWindow ==
    ops["cache"].created =>
        Downstreamed("cache") =
            [k \in DOMAIN dispatched["A"] |->
                Arr(Window(dispatched["A"], k, ops["cache"].n))]

\* what holds of the code for size >= 1 (not the claim: size 0 is left out)
C21_PositiveSizes ==
    ops["cache"].n >= 1 => C21_SlidingWindow

(***************************************************************************)
(* C22.  For reduce(reduceFn, accumulatorData): the child emits one value  *)
(* per source value, the k-th being the left fold of reduceFn over the     *)
(* first k source values from accumulatorData; the accumulator the         *)
(* operator keeps is the fold over all of them, it is never reset.         *)
(***************************************************************************)
RECURSIVE FoldLeft(_, _)
FoldLeft(acc, q) ==
    IF q = <<>> THEN acc ELSE FoldLeft(reduceFn(acc, Head(q)), Tail(q))

Folds(q) == [k \in DOMAIN q |-> FoldLeft(accumulatorData, SubSeq(q, 1, k))]

C22_ReduceFold ==
    ops["reduce"].created =>
        /\ Downstreamed("reduce") = Folds(dispatched["A"])
        /\ ops["reduce"].acc = FoldLeft(accumulatorData, dispatched["A"])
        /\ subscribed(Heap, "reduce", "f") =>
               Received("f", "reduce") = Folds(dispatched["A"])

\* three source values: f got the folds of the first one, two and three
C22_Witness ==
    /\ ops["reduce"].created /\ Len(dispatched["A"]) = 3
    /\ Received("f", "reduce") = <<Scalar(1), Scalar(12), Scalar(123)>>

(***************************************************************************)
(* C23.  For filter(filterFn): the child has emitted exactly the source    *)
(* values for which filterFn is true, in source order, each once; a value  *)
(* for which filterFn is false is never emitted.                           *)
(***************************************************************************)
C23_FilterSubsequence ==
    ops["filter"].created =>
        /\ Downstreamed("filter") = SelectSeq(dispatched["A"], filterFn)
        /\ \A i \in DOMAIN delivered :
               delivered[i].from = "filter" => filterFn(delivered[i].d)
        /\ subscribed(Heap, "filter", "f") =>
               Received("f", "filter") = SelectSeq(dispatched["A"], filterFn)

\* the source values 1, 2, 3: f got 1 and 3, the values filterFn accepts
C23_Witness ==
    /\ ops["filter"].created
    /\ dispatched["A"] = <<Scalar(1), Scalar(2), Scalar(3)>>
    /\ Received("f", "filter") = <<Scalar(1), Scalar(3)>>

(***************************************************************************)
(* C24.  For map(mapFn): the child has emitted exactly one value mapFn(v)  *)
(* for every source value v, in source order.                              *)
(***************************************************************************)
Mapped(q) == [k \in DOMAIN q |-> mapFn(q[k])]

C24_MapOneToOne ==
    ops["map"].created =>
        /\ Downstreamed("map") = Mapped(dispatched["A"])
        /\ subscribed(Heap, "map", "f") =>
               Received("f", "map") = Mapped(dispatched["A"])

\* the source values 1, 2, 3: f got 101, 102, 103
C24_Witness ==
    /\ ops["map"].created
    /\ dispatched["A"] = <<Scalar(1), Scalar(2), Scalar(3)>>
    /\ Received("f", "map") = <<Scalar(101), Scalar(102), Scalar(103)>>

(***************************************************************************)
(* Unpacking.  unpack is called on A and f is subscribed to its child;     *)
(* then plain values and Arrays of 0 to MaxLen elements are emitted on A.  *)
(* The i-th element of the Array handed over as the k-th value is named    *)
(* 10k + i; one element of the Array may itself be an Array, [10k + i].    *)
(***************************************************************************)
ListOf(len, nested) ==
    Arr([i \in 1..len |->
            IF i = nested THEN Arr(<<Scalar((Emitted + 1) * 10 + i)>>)
            ELSE Scalar((Emitted + 1) * 10 + i)])

NextUnpack ==
    \/ Setup /\ NoOperator /\ Operator("A", "unpack", "none", 0)
    \/ Setup /\ ops["unpack"].created /\ Subscribe("unpack", "f")
    \/ \E len \in 0..MaxLen : \E nested \in 0..len : Emit("A", ListOf(len, nested))
    \/ Emit("A", NextValues(1)[1])

SpecUnpack == Init /\ [][NextUnpack]_vars

(***************************************************************************)
(* C25.  For unpack(): the child has emitted, for every source value in    *)
(* source order, the elements of the value one by one in their order when  *)
(* the value is an Array (an element that is an Array as it is, nothing    *)
(* for the empty Array), and the value itself when it is no Array.         *)
(***************************************************************************)
RECURSIVE Unpacked(_)
Unpacked(q) ==
    IF q = <<>> THEN <<>>
    ELSE (IF isArray(Head(q)) THEN Head(q).v ELSE <<Head(q)>>) \o Unpacked(Tail(q))

C25_UnpackOneLevel ==
    ops["unpack"].created =>
        /\ Downstreamed("unpack") = Unpacked(dispatched["A"])
        /\ subscribed(Heap, "unpack", "f") =>
               Received("f", "unpack") = Unpacked(dispatched["A"])

\* the value 1, then the Array [21, [22], 23]: f got 1, 21, [22] and 23
C25_Witness ==
    /\ ops["unpack"].created
    /\ dispatched["A"] = <<Scalar(1),
                           Arr(<<Scalar(21), Arr(<<Scalar(22)>>), Scalar(23)>>)>>
    /\ Received("f", "unpack") =
           <<Scalar(1), Scalar(21), Arr(<<Scalar(22)>>), Scalar(23)>>

(***************************************************************************)
(* Merging.  merge is called with one or two of the emitters A and B, the  *)
(* same emitter twice included; f is subscribed to the merged emitter M.   *)
(* Before the first start() the caller may subscribe M to A or B itself;   *)
(* then start() and stop() are called in any order, any number of times,   *)
(* and values are emitted on A and B.                                      *)
(***************************************************************************)
MergeArgs == {<<a>> : a \in {"A", "B"}} \cup {<<a, b>> : a, b \in {"A", "B"}}

NextMerge ==
    \/ \E args \in MergeArgs : Merge(args)
    \/ Setup /\ merged.created /\ Subscribe("M", "f")
    \/ \E s \in {"A", "B"} :
           merged.created /\ merged.life = "new" /\ Subscribe(s, "M")
    \/ merged.created /\ Start("M")
    \/ merged.created /\ Stop("M")
    \/ \E s \in {"A", "B"} : Emit(s, NextValues(1)[1])

SpecMerge == Init /\ [][NextMerge]_vars

IsSource(s) == InList(s, merged.args)
\* the step is a call emit(d) on a source of the merge
SourceEmits(s, d) ==
    /\ Len(calls') > Len(calls)
    /\ calls'[Len(calls')] = [op |-> "emit", e |-> s, list |-> <<d>>]
    /\ IsSource(s)

(***************************************************************************)
(* C26.  As stated: once start() was called, every emission of a source    *)
(* makes the merged emitter emit once, the same value; once stop() was     *)
(* called, an emission of a source makes the merged emitter emit nothing,  *)
(* and the merged emitter is subscribed to no source.                      *)
(***************************************************************************)
C26_MergeLifecycle ==
    [][ /\ \A s \in {"A", "B"}, d \in Values :
               SourceEmits(s, d) =>
                   /\ merged.life = "started" =>
                          dispatched'["M"] = Append(dispatched["M"], d)
                   /\ merged.life = "stopped" =>
                          dispatched'["M"] = dispatched["M"]
        /\ merged'.life = "stopped" =>
               \A s \in {"A", "B"} :
                   IsSource(s) => ~SetHas(subscriptions'[s], "M") ]_vars

(***************************************************************************)
(* C26, amended.  start() subscribes the merged emitter to every source it *)
(* is not subscribed to yet and keeps the Subscription of exactly those;   *)
(* once start() was called the merged emitter is subscribed to every       *)
(* source and every emission of a source makes it emit once, the same      *)
(* value.  stop() cancels the Subscriptions start() has kept and no other: *)
(* a source the merged emitter was subscribed to before start() stays      *)
(* subscribed, and its emissions go on making the merged emitter emit;     *)
(* the emissions of the other sources make it emit nothing.                *)
(***************************************************************************)
\* the elements of q, each once, in the order of their first occurrence
RECURSIVE Distinct(_)
Distinct(q) ==
    IF q = <<>> THEN <<>>
    ELSE LET front == Distinct(SubSeq(q, 1, Len(q) - 1))
         IN  IF InList(q[Len(q)], front) THEN front ELSE Append(front, q[Len(q)])

Kept(s) == InList(<<s, "M">>, merged.subscriptions)

C26_MergeOwnSubscriptions ==
    [][ /\ \A s \in {"A", "B"}, d \in Values :
               SourceEmits(s, d) =>
                   dispatched'["M"] = IF subscribed(Heap, s, "M")
                                      THEN Append(dispatched["M"], d)
                                      ELSE dispatched["M"]
        /\ (lastCall'.op = "start" /\ Start("M")) =>
               LET new == SelectSeq(Distinct(merged.args),
                                    LAMBDA s : ~subscribed(Heap, s, "M"))
               IN  merged'.subscriptions =
                       merged.subscriptions \o [i \in DOMAIN new |-> <<new[i], "M">>]
        /\ merged'.life = "started" =>
               \A s \in {"A", "B"} : IsSource(s) => SetHas(subscriptions'[s], "M")
        /\ (lastCall'.op = "stop" /\ Stop("M")) =>
               /\ merged'.subscriptions = <<>>
               /\ \A s \in {"A", "B"} :
                      SetHas(subscriptions'[s], "M")
                          <=> (subscribed(Heap, s, "M") /\ ~Kept(s)) ]_vars

\* merge(A, B) with M subscribed to A by the caller: after start() and
\* stop() M is still subscribed to A and not to B; the value 1 emitted on B
\* did not reach f, the values 2 and 3 emitted on A did, the last one after
\* stop()
C26_Witness ==
    /\ merged.args = <<"A", "B">> /\ merged.life = "stopped"
    /\ subscribed(Heap, "A", "M")
    /\ ~subscribed(Heap, "B", "M") /\ <<"B", "M">> \in handles
    /\ Len(calls) = 3 /\ calls[3].e = "A" /\ lastCall.op = "emit"
    /\ dispatched["B"] = <<Scalar(1)>>
    /\ Received("f", "M") = <<Scalar(2), Scalar(3)>>

(***************************************************************************)
(* Promises.  f and g are subscribed to A, then promise() is called on A   *)
(* while values are emitted on it, as plain values and as promises that    *)
(* are fulfilled later.                                                    *)
(***************************************************************************)
NextPromise ==
    \/ \E x \in {"f", "g"} : Setup /\ promises = <<>> /\ Subscribe("A", x)
    \/ MakePromise("A")
    \/ Emit("A", NextValues(1)[1])
    \/ Emit("A", Promise(NextValues(1)[1]))
    \/ \E i \in DOMAIN awaiting : Settle(i)
    \/ RunMicrotask

SpecPromise == Init /\ [][NextPromise]_vars

(***************************************************************************)
(* C27.  For every promise made by promise() on e: it is pending, and its  *)
(* listener subscribed to e, exactly until e dispatches a value; from then *)
(* on it is resolved with the first value e dispatched after the call,     *)
(* whatever e dispatches later, its listener is not subscribed, and the    *)
(* subscription set of e is what it was before the call (the listeners of  *)
(* the other promise() calls left aside).                                  *)
(***************************************************************************)
Without(q, S) == SelectSeq(q, LAMBDA x : x \notin S)

C27_PromiseOneShot ==
    \A i \in DOMAIN promises :
        LET p == promises[i]
            since == SubSeq(dispatched[p.e], p.at + 1, Len(dispatched[p.e]))
        IN  /\ p.state = IF since = <<>> THEN "pending" ELSE "resolved"
            /\ p.value = IF since = <<>> THEN <<>> ELSE <<since[1]>>
            /\ subscribed(Heap, p.e, PromiseFns[i]) <=> since = <<>>
            /\ since # <<>> =>
                   Without(subscriptions[p.e], PromiseFnSet \ {PromiseFns[i]})
                       = Without(p.before, PromiseFnSet)

\* promise(), emit(1), promise(), emit(2), emit(3) on A with f subscribed:
\* the promises are resolved with 1 and with 2, and f alone is subscribed
C27_Witness ==
    /\ Len(promises) = 2
    /\ promises[1].at = 0 /\ promises[1].value = <<Scalar(1)>>
    /\ promises[2].at = 1 /\ promises[2].value = <<Scalar(2)>>
    /\ dispatched["A"] = <<Scalar(1), Scalar(2), Scalar(3)>>
    /\ subscriptions["A"] = <<"f">>
    /\ Received("f", "A") = dispatched["A"]

(***************************************************************************)
(* C28.  For delay(t) and for wait(delayReleaser(t)): every source value   *)
(* arms a timer of its own, and no timer is ever cleared.  The child has   *)
(* emitted the source values whose timers have fired, each once, unchanged *)
(* and never inside the call that emitted it on the source; the values not *)
(* forwarded yet are exactly those of the pending timers, so a later value *)
(* neither cancels nor postpones an earlier one; and every source value is *)
(* forwarded in the end.                                                   *)
(***************************************************************************)
Delaying(o) ==
    ops[o].created /\ (o = "delay" \/ (o = "wait" /\ ops[o].rel = "delay"))

TimerValues == [i \in DOMAIN timers |-> timers[i].d]
Fires == Len(SelectSeq(calls, LAMBDA c : c.op = "fire"))

C28_DelayedOnce ==
    \A o \in {"delay", "wait"} :
        Delaying(o) =>
            /\ Downstreamed(o) \o TimerValues = dispatched["A"]
            /\ \A i \in DOMAIN timers : timers[i].o = o
            /\ Len(Downstreamed(o)) = Fires
            /\ subscribed(Heap, o, "f") => Received("f", o) = Downstreamed(o)

C28_DelayIndependent ==
    /\ []C28_DelayedOnce
    /\ \A o \in {"delay", "wait"} : \A k \in 1..MaxEmits :
           (Delaying(o) /\ Len(dispatched["A"]) >= k) ~> (Len(Downstreamed(o)) >= k)

\* wait(delayReleaser(t)): emit(1), emit(2), a timer fires, emit(3), the two
\* pending timers fire: f got 1, 2 and 3
C28_Witness ==
    /\ Delaying("wait")
    /\ Len(calls) = 6 /\ OnA(1) /\ OnA(2) /\ Fired(3) /\ OnA(4) /\ Fired(5) /\ Fired(6)
    /\ Received("f", "wait") = <<Scalar(1), Scalar(2), Scalar(3)>>
    /\ timers = <<>>

(***************************************************************************)
(* Buffering.  buffer is called on A with any of the releasers and f is    *)
(* subscribed to its child; then values are emitted on A and on R while    *)
(* the pending timers fire: the trigger is invoked inside the releaser's   *)
(* call (countReleaser, lengthReleaser), on an emission of R, or when a    *)
(* timer fires.                                                            *)
(***************************************************************************)
Releasers == {"emitter", "count", "length", "delay", "debounce", "timeout"}

NextBuffer ==
    \/ \E rel \in Releasers : \E n \in RelArgs(rel) :
           Setup /\ NoOperator /\ Operator("A", "buffer", rel, n)
    \/ Setup /\ ops["buffer"].created /\ Subscribe("buffer", "f")
    \/ \E e \in {"A", "R"} : Emit(e, NextValues(1)[1])
    \/ \E i \in DOMAIN timers : Fire(i)

SpecBuffer == Init /\ [][NextBuffer]_vars

(***************************************************************************)
(* C29.  For buffer with any releaser, after every step: the Arrays the    *)
(* child has emitted, one after the other, followed by the pending buffer  *)
(* are the source values received so far, in order; and a step in which    *)
(* the child emits leaves the pending buffer empty.                        *)
(***************************************************************************)
RECURSIVE Concat(_)
Concat(q) == IF q = <<>> THEN <<>> ELSE Head(q).v \o Concat(Tail(q))

C29_BufferConserves ==
    [][ops'["buffer"].created =>
          /\ Concat(dispatched'["buffer"]) \o ops'["buffer"].buf = dispatched'["A"]
          /\ \A i \in DOMAIN dispatched'["buffer"] : isArray(dispatched'["buffer"][i])
          /\ dispatched'["buffer"] # dispatched["buffer"] =>
                 ops'["buffer"].buf = <<>>
          /\ subscribed(Heap, "buffer", "f") =>
                 Concat(Received("f", "buffer")) = Concat(dispatched["buffer"]) ]_vars

\* buffer(delayReleaser(t)): emit(1), emit(2), the first timer fires, emit(3),
\* the other timers fire: f got [1, 2], then [3], then []
C29_Witness ==
    /\ ops["buffer"].created /\ ops["buffer"].rel = "delay"
    /\ Len(calls) = 6 /\ OnA(1) /\ OnA(2) /\ Fired(3) /\ OnA(4) /\ Fired(5) /\ Fired(6)
    /\ Received("f", "buffer") =
           <<Arr(<<Scalar(1), Scalar(2)>>), Arr(<<Scalar(3)>>), Arr(<<>>)>>
    /\ ops["buffer"].buf = <<>>

(***************************************************************************)
(* Passing.  pass is called on A with any of the releasers and f is        *)
(* subscribed to its child; then values are emitted on A and on R while    *)
(* the pending timers fire.                                                *)
(***************************************************************************)
NextPass ==
    \/ \E rel \in Releasers : \E n \in RelArgs(rel) :
           Setup /\ NoOperator /\ Operator("A", "pass", rel, n)
    \/ Setup /\ ops["pass"].created /\ Subscribe("pass", "f")
    \/ \E e \in {"A", "R"} : Emit(e, NextValues(1)[1])
    \/ \E i \in DOMAIN timers : Fire(i)

SpecPass == Init /\ [][NextPass]_vars

(***************************************************************************)
(* C30.  For pass with any releaser: the values forwarded, plus one when   *)
(* the gate is open, are never more than the invocations of the trigger.   *)
(* The child emits only inside an emit call on the source, and then that   *)
(* call's value, once, exactly when the gate was open; the gate is closed  *)
(* after a call that forwarded unless the trigger was invoked in it, and   *)
(* it opens only by an invocation of the trigger.  So after any number of  *)
(* invocations with no source value in between one value is forwarded.     *)
(***************************************************************************)
SourceValue(d) ==
    /\ Len(calls') > Len(calls)
    /\ calls'[Len(calls')] = [op |-> "emit", e |-> "A", list |-> <<d>>]

C30_PassSingleGate ==
    [][ops'["pass"].created =>
          LET gate == ops["pass"]
              gate1 == ops'["pass"]
              forwarded == dispatched["pass"]
              forwarded1 == dispatched'["pass"]
          IN  /\ Len(forwarded1) + (IF gate1.ok THEN 1 ELSE 0) <= gate1.releases
              /\ forwarded1 = IF gate.ok /\ \E d \in Values : SourceValue(d)
                              THEN Append(forwarded, calls'[Len(calls')].list[1])
                              ELSE forwarded
              /\ (forwarded1 # forwarded /\ gate1.releases = gate.releases)
                     => ~gate1.ok
              /\ (gate1.ok /\ ~gate.ok) => gate1.releases > gate.releases
              /\ subscribed(Heap, "pass", "f") => Received("f", "pass") = forwarded
       ]_vars

\* pass(delayReleaser(t)): emit(1), emit(2), both timers fire, emit(3): the
\* trigger was invoked twice, f got 3 and the gate is closed again
C30_Witness ==
    /\ ops["pass"].created /\ ops["pass"].rel = "delay"
    /\ Len(calls) = 5 /\ OnA(1) /\ OnA(2) /\ Fired(3) /\ Fired(4) /\ OnA(5)
    /\ ops["pass"].releases = 2 /\ ~ops["pass"].ok
    /\ Received("f", "pass") = <<Scalar(3)>>

(***************************************************************************)
(* Late subscribers.  f and u are subscribed to A before the first         *)
(* emission; promises are emitted on A.  While an emit is suspended (its   *)
(* promise is pending, or its continuation is queued) f and g are          *)
(* subscribed to A and unsubscribed from it, in any order: g is never      *)
(* subscribed outside such a stretch.                                      *)
(***************************************************************************)
Suspended == awaiting # <<>> \/ microtasks # <<>>

NextLate ==
    \/ \E x \in {"f", "u"} : Setup /\ Subscribe("A", x)
    \/ \E x \in {"f", "g"} : Suspended /\ Subscribe("A", x)
    \/ \E x \in {"f", "g"} : Suspended /\ Unsubscribe("A", x)
    \/ Emit("A", Promise(NextValues(1)[1]))
    \/ \E i \in DOMAIN awaiting : Settle(i)
    \/ RunMicrotask

SpecLate == Init /\ [][NextLate]_vars

\* the calls made in the step
NewCalls == SubSeq(delivered', Len(delivered) + 1, Len(delivered'))
\* the step runs the continuation of an emit that was called with a promise
Resumes == lastCall'.op = "job" /\ microtasks # <<>> /\ Head(microtasks).t = "emit"

(***************************************************************************)
(* C31.  A call emit(P) with a pending promise P calls no subscriber and   *)
(* begins no pass.  When its continuation runs, every call made is one by  *)
(* the emitter with the value of P; a callback that is in the subscription *)
(* set when the continuation begins (and is not removed while it runs) is  *)
(* called once, whether or not it was subscribed when emit was called; a   *)
(* callback that is not in the set then is not called, whether or not it   *)
(* was subscribed when emit was called.                                    *)
(***************************************************************************)
C31_SetAtSettlement ==
    [][ /\ (Len(calls') > Len(calls) /\ calls'[Len(calls')].op = "emitPromise")
               => (delivered' = delivered /\ dispatched' = dispatched)
        /\ Resumes =>
               LET job == Head(microtasks)
               IN  /\ \A i \in DOMAIN NewCalls :
                          NewCalls[i].from = job.e /\ NewCalls[i].d = job.rest[1]
                   /\ \A x \in Callbacks :
                          LET n == Len(SelectSeq(NewCalls, LAMBDA r : r.to = x))
                          IN  /\ ( /\ SetHas(subscriptions[job.e], x)
                                   /\ SetHas(subscriptions'[job.e], x) ) => n = 1
                              /\ ~SetHas(subscriptions[job.e], x) => n = 0 ]_vars

\* emit(P) was called with f subscribed; then g was subscribed and f was
\* unsubscribed; P was fulfilled with 1: g was called with 1 and f was not
C31_Witness ==
    /\ Len(calls) = 1 /\ calls[1].op = "emitPromise" /\ results = <<"fulfilled">>
    /\ LastOp("A", "f") = "unsubscribe" /\ <<"A", "f">> \in handles
    /\ Received("g", "A") = <<Scalar(1)>>
    /\ Received("f", "A") = <<>>

(***************************************************************************)
(* Subscribers added during a pass.  f, s and r are subscribed to A, in    *)
(* any order, and the options of A are set, before the first emission;     *)
(* then plain values are emitted on A, and g is unsubscribed between two   *)
(* emissions.  g is subscribed by s and r only, from inside a pass.        *)
(***************************************************************************)
NextAdd ==
    \/ \E x \in {"f", "s", "r"} : Setup /\ Subscribe("A", x)
    \/ \E n \in 0..MaxReplay : Setup /\ SetOptions("A", n)
    \/ Emit("A", NextValues(1)[1])
    \/ ~Setup /\ subscribed(Heap, "A", "g") /\ Unsubscribe("A", "g")

SpecAdd == Init /\ [][NextAdd]_vars

\* how often callback x is called in the step
CallsTo(x) == Len(SelectSeq(NewCalls, LAMBDA c : c.to = x))

(***************************************************************************)
(* C32.  As stated: in a call emit(d) with a plain value, a callback that  *)
(* is subscribed to the emitter from inside the pass is not called in that *)
(* pass; a callback that is subscribed when the call begins and when it    *)
(* ends is called; and no callback is called more than once.               *)
(***************************************************************************)
C32_AddedNotInPass ==
    [][(\E d \in Values : SourceValue(d)) =>
          \A x \in Callbacks :
              /\ (~subscribed(Heap, "A", x) /\ SetHas(subscriptions'["A"], x))
                     => CallsTo(x) = 0
              /\ (subscribed(Heap, "A", x) /\ SetHas(subscriptions'["A"], x))
                     => CallsTo(x) >= 1
              /\ CallsTo(x) <= 1 ]_vars

\* what the code does: a callback that a subscriber adds with subscribe
\* during a pass, and no subscriber with subscribeAndReplay, is called once
\* in that very pass, after the subscribers that were there before it
C32_AddedIsVisited ==
    [][((\E d \in Values : SourceValue(d)) /\ ~subscribed(Heap, "A", "r")) =>
          \A x \in Callbacks :
              SetHas(subscriptions'["A"], x) =>
                  /\ CallsTo(x) = 1
                  /\ ~subscribed(Heap, "A", x) => NewCalls[Len(NewCalls)].to = x ]_vars

(***************************************************************************)
(* Options of a child.  The options of A are set at any time; one operator *)
(* is called on A, before or between emissions (pass, wait and buffer with *)
(* countReleaser); then the options of the child are set too, while plain  *)
(* values are emitted on A.                                                *)
(***************************************************************************)
NextInherit ==
    \/ \E n \in 0..MaxReplay : SetOptions("A", n)
    \/ \E o \in Ops \ (Gates \cup Timed) :
           NoOperator /\ Operator("A", o, "none", 1)
    \/ \E o \in Gates : \E n \in RelArgs("count") :
           NoOperator /\ Operator("A", o, "count", n)
    \/ \E o \in Ops : \E n \in 0..MaxReplay : ops[o].created /\ SetOptions(o, n)
    \/ Emit("A", NextValues(1)[1])

SpecInherit == Init /\ [][NextInherit]_vars

(***************************************************************************)
(* C33.  The child an operator creates has the replayMax its parent has at *)
(* that moment.  setOptions on an emitter changes the replayMax and the    *)
(* replay cache of no other emitter: not the child's when it is called on  *)
(* the parent, not the parent's when it is called on the child.  The       *)
(* replayMax of a child changes in no step but a setOptions on the child.  *)
(***************************************************************************)
C33_ReplayMaxAtCreation ==
    [][ /\ \A o \in Ops :
               (~ops[o].created /\ ops'[o].created) =>
                   (replayMax'[o] = replayMax["A"] /\ replayMax'["A"] = replayMax["A"])
        /\ \A e \in {"A"} \cup {o \in Ops : ops[o].created}, n \in 0..MaxReplay :
               (lastCall'.op = "setOptions" /\ SetOptions(e, n)) =>
                   \A a \in Emitters \ {e} :
                       replayMax'[a] = replayMax[a] /\ replayCache'[a] = replayCache[a]
        /\ \A o \in Ops :
               (ops[o].created /\ replayMax'[o] # replayMax[o]) =>
                   (lastCall'.op = "setOptions" /\ replayMax'["A"] = replayMax["A"]) ]_vars

\* A had replayMax 2 when map was called on it; after two emissions the
\* replayMax of A was set to 1: the child still has 2 and replays both
C33_Witness ==
    /\ ops["map"].created /\ lastCall.op = "setOptions"
    /\ replayMax["A"] = 1 /\ configured["A"] = 2
    /\ replayMax["map"] = 2 /\ configured["map"] = 0
    /\ replayCache["A"] = <<Scalar(2)>>
    /\ replayCache["map"] = <<Scalar(101), Scalar(102)>>

(***************************************************************************)
(* C34.  For the emitter of merge, however often start() was called and    *)
(* however often a source is listed: an emission of a source makes the     *)
(* merged emitter emit at most once and its subscriber be called at most   *)
(* once; a start() on a started emitter changes no subscription; one       *)
(* stop() leaves the merged emitter subscribed to no source that start()   *)
(* has subscribed it to, and keeps no Subscription; after a start(), also  *)
(* one that follows a stop(), it is subscribed to every source.            *)
(***************************************************************************)
C34_StartStopIdempotent ==
    [][ /\ \A s \in {"A", "B"}, d \in Values :
               SourceEmits(s, d) =>
                   /\ Len(dispatched'["M"]) <= Len(dispatched["M"]) + 1
                   /\ CallsTo("f") <= 1
                   /\ merged.life = "started" => Last(dispatched'["M"]) = d
        /\ (lastCall'.op = "start" /\ Start("M")) =>
               /\ \A s \in {"A", "B"} : IsSource(s) => SetHas(subscriptions'[s], "M")
               /\ \A s \in {"A", "B"} :
                      Len(SelectSeq(subscriptions'[s], LAMBDA x : x = "M")) <= 1
               /\ merged.life = "started" =>
                      (subscriptions' = subscriptions
                          /\ merged'.subscriptions = merged.subscriptions)
        /\ (lastCall'.op = "stop" /\ Stop("M")) =>
               /\ \A s \in {"A", "B"} : Kept(s) => ~SetHas(subscriptions'[s], "M")
               /\ merged'.subscriptions = <<>> ]_vars

\* merge(A, A): start(), emit(1) on A, stop(), emit(2) on A, start(),
\* emit(3) on A: f got 1 and 3, each once
C34_Witness ==
    /\ merged.args = <<"A", "A">> /\ merged.life = "started"
    /\ merged.subscriptions = << <<"A", "M">> >>
    /\ dispatched["A"] = <<Scalar(1), Scalar(2), Scalar(3)>>
    /\ Received("f", "M") = <<Scalar(1), Scalar(3)>>

(***************************************************************************)
(* Windows.  One operator that keeps a single timer is called on A: pass,  *)
(* wait or buffer with debounceReleaser or timeoutReleaser, debounceTime   *)
(* or auditTime; f is subscribed to its child; then values are emitted on  *)
(* A while the pending timers fire.                                        *)
(***************************************************************************)
NextWindow ==
    \/ \E o \in Gates : \E rel \in {"debounce", "timeout"} :
           Setup /\ NoOperator /\ Operator("A", o, rel, 0)
    \/ \E o \in {"debounceTime", "auditTime"} :
           Setup /\ NoOperator /\ Operator("A", o, "none", 0)
    \/ \E o \in Ops : Setup /\ ops[o].created /\ Subscribe(o, "f")
    \/ Emit("A", NextValues(1)[1])
    \/ \E i \in DOMAIN timers : Fire(i)

SpecWindow == Init /\ [][NextWindow]_vars

\* operator o keeps one timer handle (emitterTO)
SingleTimer(o) ==
    /\ ops[o].created
    /\ o \in {"debounceTime", "auditTime"} \/ ops[o].rel \in {"debounce", "timeout"}

PendingOf(o) == SelectSeq(timers, LAMBDA tm : tm.o = o)

NextRegister ==
    \/ \E x \in {"f", "B"} : Subscribe("A", x)
    \/ Setup /\ Subscribe("A", "g")
    \/ Setup /\ Subscribe("B", "f")
    \/ \E x \in {"f", "B"} : Unsubscribe("A", x)
    \/ \E x \in {"f", "B"} : Cancel("A", x)
    \/ Emit("A", NextValues(1)[1])

SpecRegister == Init /\ [][NextRegister]_vars

\* how often emitter e calls callback x in the step
CallsBy(e, x) == Len(SelectSeq(NewCalls, LAMBDA c : c.to = x /\ c.from = e))
Occurrences(q, x) == Len(SelectSeq(q, LAMBDA y : y = x))

(***************************************************************************)
(* C36.  A subscriber is in the subscription set of an emitter at most     *)
(* once, however often it was subscribed: a subscribe of a subscriber that *)
(* is subscribed changes no set; an emission calls every subscribed        *)
(* callback once and begins one pass on a subscribed emitter; and one      *)
(* unsubscribe, or one cancel of a Subscription of the pair, leaves the    *)
(* set without the subscriber and otherwise as it was, so that the next    *)
(* emission does not reach it.                                             *)
(***************************************************************************)
C36_RegisteredOnce ==
    [][ /\ \A e \in {"A", "B"}, x \in Subscribers :
               Occurrences(subscriptions'[e], x) <= 1
        /\ \A x \in {"f", "B"} :
               (lastCall'.op = "subscribe" /\ Subscribe("A", x)
                    /\ subscribed(Heap, "A", x)) => subscriptions' = subscriptions
        /\ \A d \in Values :
               SourceValue(d) =>
                   /\ \A x \in Callbacks :
                          CallsBy("A", x) = IF subscribed(Heap, "A", x) THEN 1 ELSE 0
                   /\ dispatched'["B"] = IF subscribed(Heap, "A", "B")
                                         THEN Append(dispatched["B"], d)
                                         ELSE dispatched["B"]
        /\ \A x \in {"f", "B"} :
               ( \/ lastCall'.op = "unsubscribe" /\ Unsubscribe("A", x)
                 \/ lastCall'.op = "cancel" /\ Cancel("A", x) ) =>
                   subscriptions' = [subscriptions EXCEPT
                                        !["A"] = SelectSeq(@, LAMBDA y : y # x)] ]_vars

\* f and g are subscribed to A and were called with 1; a subscribe on A has
\* just returned that found its subscriber there: the set is as it was
C36_Witness ==
    /\ lastCall = Call("subscribe", FALSE, FALSE, FALSE)
    /\ subscriptions["A"] = <<"f", "g">>
    /\ dispatched["A"] = <<Scalar(1)>>
    /\ Received("f", "A") = <<Scalar(1)>> /\ Received("g", "A") = <<Scalar(1)>>

(***************************************************************************)
(* Settlement order.  Before the first emission replayMax of A is set to a *)
(* positive number and f is subscribed to A.  Then values are emitted on A *)
(* as plain values and as promises; the promises are fulfilled in any      *)
(* order and the queued continuations run; g subscribes with replay at     *)
(* some moment.                                                            *)
(***************************************************************************)
NextSettle ==
    \/ \E n \in 1..MaxReplay : Setup /\ SetOptions("A", n)
    \/ Setup /\ Subscribe("A", "f")
    \/ Emit("A", NextValues(1)[1])
    \/ Emit("A", Promise(NextValues(1)[1]))
    \/ \E i \in DOMAIN awaiting : Settle(i)
    \/ RunMicrotask
    \/ ~subscribed(Heap, "A", "g") /\ SubscribeAndReplay("A", "g")

SpecSettle == Init /\ [][NextSettle]_vars

(***************************************************************************)
(* C37.  On an emitter whose replayMax is N > 0 since before its first     *)
(* emission, whatever the order in which the emit calls were made and      *)
(* their promises settled: the replay cache is the last min(K, N) of the K *)
(* values dispatched so far, in the order in which their passes began; a   *)
(* callback subscribed since before the first emission was called with the *)
(* K values in that order; and a subscribeAndReplay calls the new          *)
(* subscriber with the last min(K, N) values that callback was called      *)
(* with, in the same order.                                                *)
(***************************************************************************)
C37_CacheInDispatchOrder ==
    [][(replayMax'["A"] > 0 /\ configured'["A"] = 0 /\ ~Setup) =>
          LET K == Len(dispatched'["A"])
              N == replayMax'["A"]
          IN  /\ replayCache'["A"] = Window(dispatched'["A"], K, N)
              /\ subscribed(Heap, "A", "f") =>
                     Data(SelectSeq(delivered', LAMBDA c : c.to = "f"))
                         = dispatched'["A"]
              /\ (lastCall'.op = "subscribeAndReplay" /\ subscribed(Heap, "A", "f")) =>
                     Data(NewCalls) = Window(Received("f", "A"), K, N) ]_vars

\* replayMax = 2; emit(P1), emit(P2), emit(P3); P2, P3 and P1 are fulfilled
\* in this order: f was called with 2, 3, 1 and g is replayed 3, 1
C37_Witness ==
    /\ replayMax["A"] = 2 /\ configured["A"] = 0
    /\ Len(calls) = 3 /\ \A c \in 1..3 : calls[c].op = "emitPromise"
    /\ dispatched["A"] = <<Scalar(2), Scalar(3), Scalar(1)>>
    /\ Received("f", "A") = <<Scalar(2), Scalar(3), Scalar(1)>>
    /\ Received("g", "A") = <<Scalar(3), Scalar(1)>>
    /\ replayCache["A"] = <<Scalar(3), Scalar(1)>>

(***************************************************************************)
(* C38.  In a step in which the callback t throws in a pass of B, begun    *)
(* because B is subscribed to A, and not in the pass of A itself: every    *)
(* callback subscribed to A is called by A, once, also those that come     *)
(* after B in A's set; nothing is thrown to the caller; and no promise     *)
(* that an emit or emitAll on A has returned becomes rejected.             *)
(***************************************************************************)
ThrowsIn(e, d) ==
    \E i \in DOMAIN NewCalls : NewCalls[i] = [to |-> "t", from |-> e, d |-> d]

C38_NestedThrowContained ==
    [][\A d \in Values :
          (ThrowsIn("B", d) /\ ~ThrowsIn("A", d)) =>
              /\ \A x \in Callbacks :
                     subscribed(Heap, "A", x) => CallsBy("A", x) = 1
              /\ ~lastCall'.threw
              /\ \A c \in DOMAIN results' :
                     results'[c] = "rejected" =>
                         (c \in DOMAIN results /\ results[c] = "rejected") ]_vars

\* B, then f, are subscribed to A and t, then f, to B; emit(1) on A: t threw
\* in the pass of B, f was not called by B, f was called by A and the emit
\* is fulfilled
C38_Witness ==
    /\ subscriptions["A"] = <<"B", "f">> /\ subscriptions["B"] = <<"t", "f">>
    /\ Len(calls) = 1 /\ calls[1].op = "emit" /\ results = <<"fulfilled">>
    /\ delivered = <<[to |-> "t", from |-> "B", d |-> Scalar(1)],
                     [to |-> "f", from |-> "A", d |-> Scalar(1)]>>

(***************************************************************************)
(* C39.  For pass, wait and buffer made with emitterReleaser(R): a call    *)
(* emit on R that is made before the first source value has arrived calls  *)
(* no callback, makes the child emit nothing and leaves the closure of the *)
(* operator (gate, buffer, the releaser's function) and the timers as they *)
(* were; the trigger is not invoked.                                       *)
(***************************************************************************)
C39_EarlyReleaseIgnored ==
    [][\A o \in Gates :
          ( /\ ops[o].created /\ ops[o].rel = "emitter"
            /\ dispatched["A"] = <<>>
            /\ Len(calls') > Len(calls)
            /\ calls'[Len(calls')].op = "emit" /\ calls'[Len(calls')].e = "R" ) =>
              /\ dispatched'[o] = <<>>
              /\ delivered' = delivered
              /\ ops'[o] = ops[o] /\ ops'[o].releases = 0
              /\ ~ops'[o].ok /\ ops'[o].buf = <<>>
              /\ timers' = timers ]_vars

\* buffer(emitterReleaser(R)): R emits, then 2 is emitted on A, then R emits
\* again: f got [2] and nothing for the first emission of R
C39_Witness ==
    /\ ops["buffer"].created /\ ops["buffer"].rel = "emitter"
    /\ Len(calls) = 3 /\ OnR(1) /\ OnA(2) /\ OnR(3)
    /\ ops["buffer"].releases = 1
    /\ Received("f", "buffer") = <<Arr(<<Scalar(2)>>)>>

(***************************************************************************)
(* Order.  The callbacks f and g are subscribed to A, whether they are     *)
(* subscribed or not, and unsubscribed from it when they are, at any time; *)
(* the emitter B is subscribed to A, and f to B, before the first          *)
(* emission; plain values are emitted on A.                                *)
(***************************************************************************)
NextOrder ==
    \/ \E x \in {"f", "g"} : Subscribe("A", x)
    \/ Setup /\ Subscribe("A", "B")
    \/ Setup /\ Subscribe("B", "f")
    \/ \E x \in {"f", "g"} : subscribed(Heap, "A", x) /\ Unsubscribe("A", x)
    \/ Emit("A", NextValues(1)[1])

SpecOrder == Init /\ [][NextOrder]_vars

\* the subscribers of A in whose turn the calls of the step were made
Turns == [i \in DOMAIN NewCalls |->
            IF NewCalls[i].from = "A" THEN NewCalls[i].to ELSE NewCalls[i].from]

(***************************************************************************)
(* C40.  A subscribe of a subscriber that is not subscribed puts it after  *)
(* all the subscribers there are, also when it was subscribed and          *)
(* unsubscribed before; a subscribe of a subscriber that is subscribed     *)
(* changes no position; an unsubscribe leaves the others in their order;   *)
(* and a pass takes the subscribers in that order, from the one subscribed *)
(* first to the one subscribed last.                                       *)
(***************************************************************************)
C40_SubscriptionOrder ==
    [][ /\ \A x \in {"f", "g", "B"} :
               (lastCall'.op = "subscribe" /\ Subscribe("A", x)) =>
                   subscriptions'["A"] = IF subscribed(Heap, "A", x)
                                         THEN subscriptions["A"]
                                         ELSE Append(subscriptions["A"], x)
        /\ \A x \in {"f", "g"} :
               (lastCall'.op = "unsubscribe" /\ Unsubscribe("A", x)) =>
                   subscriptions'["A"] = SelectSeq(subscriptions["A"], LAMBDA y : y # x)
        /\ (\E d \in Values : SourceValue(d)) =>
               Turns = SelectSeq(subscriptions["A"],
                                 LAMBDA x : x # "B" \/ subscriptions["B"] # <<>>) ]_vars

\* f, B and g were subscribed to A in this order; the passes of 1 and of 2
\* took f, B, g; before the pass of 3, which took B, g, f, f was unsubscribed
\* and subscribed again
C40_Witness ==
    /\ subscriptions["B"] = <<"f">>
    /\ Len(dispatched["A"]) = 3
    /\ delivered =
          <<[to |-> "f", from |-> "A", d |-> Scalar(1)],
            [to |-> "f", from |-> "B", d |-> Scalar(1)],
            [to |-> "g", from |-> "A", d |-> Scalar(1)],
            [to |-> "f", from |-> "A", d |-> Scalar(2)],
            [to |-> "f", from |-> "B", d |-> Scalar(2)],
            [to |-> "g", from |-> "A", d |-> Scalar(2)],
            [to |-> "f", from |-> "B", d |-> Scalar(3)],
            [to |-> "g", from |-> "A", d |-> Scalar(3)],
            [to |-> "f", from |-> "A", d |-> Scalar(3)]>>

=============================================================================
